---- MODULE Spec2Model ----
(***************************************************************************)
(* Model of the turn-taking controller of src/src/services/speechService.js *)
(* (class SpeechService): the isSpeaking / isListening flags, the speech    *)
(* queue, the silence timer, the transition delays, and the TTS and STT     *)
(* engines it drives.  Every public method and every engine or timer        *)
(* callback is one action; a method that suspends in a setTimeout delay is  *)
(* split at that delay, its continuation being the timer's action.          *)
(* `await` of an already-settled promise (a microtask hop) is folded into   *)
(* the step that reaches it: only timers and engine events are macrotasks.  *)
(* The second part models the dialog of the exam screen and of the home     *)
(* screen (src/src/screens/student/ExamPage.js, HomePage.js) on top of the  *)
(* two flags of the controller, the third the search of the option letter  *)
(* in a transcript and the branch the exam screen takes for it, and the     *)
(* fourth the screen context service with its subscribers                   *)
(* (src/src/services/evaluationMetrics.js), and the fifth the queue of      *)
(* pending submissions (src/src/services/offlineService.js).                *)
(***************************************************************************)
EXTENDS Integers, Sequences, FiniteSets, TLC

VARIABLES
    isSpeaking,                   \* this.isSpeaking
    isListening,                  \* this.isListening
    speechQueue,                  \* this.speechQueue: texts waiting to be spoken
    currentRecognition,           \* this.currentRecognition (TRUE / null = FALSE)
    currentRecognitionSubscriptions, \* result+error listeners registered
    silenceTimeout,               \* this.silenceTimeout: "null", "armed", "fired"
    onSpeechEndCallback,          \* callback registered (TRUE) or null (FALSE)
    onRecognitionResultCallback,
    onRecognitionErrorCallback,
    timers,                       \* pending setTimeout callbacks, in creation order
    tts,                          \* utterances held by the TTS engine, oldest first
    sttActive,                    \* the recognition engine is running
    nextId,                       \* next speak() call; a call's text is its number
    silenceCount,                 \* history: silence_timeout errors raised in this window
    heard,                        \* history: a recognition event arrived in this window
    resultCount,                  \* history: calls of the result callback for this window, counted by SpecListening
    event,                        \* history: the recognition event the last step handled
    emitted,                      \* history: callbacks, settlements, engine calls of the last step
    fault,                        \* history: engine failure met by the last step
    lastOp,                       \* history: the step taken last, if a tracked one
    before,                       \* history: the turn state a tracked step started in
    context,                      \* screenContextService.currentScreenContext
    registered,                   \* the screen whose callbacks the controller holds: "none", "HOME", "EXAM"
    homeSpeechInitializedRef,     \* HomePage: initializeSpeech has registered the callbacks
    homeIsProcessingCommandRef,   \* HomePage: re-entrancy guard of handleVoiceCommand
    examPageOpen,                 \* the ExamPage component is mounted
    mounted,                      \* ExamPage: `mounted` of the effect run that registered the callbacks
    speechInitializedRef,         \* ExamPage: initializeSpeech has registered the callbacks
    isProcessingCommandRef,       \* ExamPage: re-entrancy guard of handleVoiceCommand
    isWaitingForConfirmationRef,  \* ExamPage: the submit confirmation is open
    hasReadFirstQuestionRef,      \* ExamPage: the first question has been read
    currentQuestionIndexRef,      \* ExamPage: index of the current question, from 0
    currentQuestionIndex,         \* ExamPage: state `currentQuestionIndex`, the question shown
    answersRef,                   \* ExamPage: the recorded answers {questionId, answer}, oldest first
    submitting,                   \* ExamPage: state `submitting`
    timeRemaining,                \* ExamPage: state `timeRemaining`, in timer periods
    tasks,                        \* async functions of the screen suspended at an await
    screenTimers,                 \* pending setTimeout callbacks of the screen, in creation order
    recognized,                   \* history: transcripts and errors the controller handed to the screen
    submitCount,                  \* history: calls of submitExam (the submission sink)
    sinkBy,                       \* history: what started the last call of submitExam
    out,                          \* history: what the last step of the screen did
    lastStep,                     \* history: the last step of the screen
    transcript,                   \* the words of a final transcript, as recognized
    selectedLetter,               \* ExamPage: selectedLetter of the transcript, "-" before the search
    questionType,                 \* ExamPage: currentQuestion.type when the transcript arrives, "-" before
    intent,                       \* ExamPage: the branch handleVoiceCommand takes, "-" before
    listeners,                    \* ScreenContextService.listeners, in subscription order
    notified,                     \* history: the listener calls of the last setContext()
    lastSet,                      \* history: the argument of setContext() if the last step was one, else "-"
    pendingSubmissions,           \* AsyncStorage item 'pending_submissions', parsed
    queueCall,                    \* the queueSubmission() call in progress, after its read
    syncCall,                     \* the syncPendingSubmissions() call in progress
    queueSerial,                  \* queueSubmission() calls so far; a call's answers are its number
    submitted,                    \* history: the submissions submitFunction accepted
    latest                        \* history: the answers last queued for each exam, 0 if none

vars == <<isSpeaking, isListening, speechQueue, currentRecognition,
          currentRecognitionSubscriptions, silenceTimeout, onSpeechEndCallback,
          onRecognitionResultCallback, onRecognitionErrorCallback,
          timers, tts, sttActive, nextId, silenceCount, heard, resultCount,
          event, emitted, fault, lastOp, before,
          context, registered, homeSpeechInitializedRef,
          homeIsProcessingCommandRef, examPageOpen, mounted, speechInitializedRef,
          isProcessingCommandRef, isWaitingForConfirmationRef,
          hasReadFirstQuestionRef, currentQuestionIndexRef,
          currentQuestionIndex, answersRef,
          submitting, timeRemaining, tasks, screenTimers, recognized,
          submitCount, sinkBy, out, lastStep, transcript, selectedLetter,
          questionType, intent, listeners, notified, lastSet,
          pendingSubmissions, queueCall, syncCall, queueSerial, submitted,
          latest>>

\* the variables of the exam screen; the controller's own steps leave them alone
screenVars == <<context, registered, homeSpeechInitializedRef,
                homeIsProcessingCommandRef, examPageOpen, mounted,
                speechInitializedRef,
                isProcessingCommandRef,
                isWaitingForConfirmationRef, hasReadFirstQuestionRef,
                currentQuestionIndexRef, currentQuestionIndex, answersRef,
                submitting, timeRemaining,
                tasks, screenTimers, recognized, submitCount, sinkBy, out,
                lastStep>>

\* the variables of the option-letter search
interpreterVars == <<transcript, selectedLetter, questionType, intent>>

\* the subscribers of the screen context service; no screen subscribes
gateVars == <<listeners, notified, lastSet>>

\* the queue of pending submissions; nothing else reads or writes it
offlineVars == <<pendingSubmissions, queueCall, syncCall, queueSerial,
                 submitted, latest>>

\* the variables of the controller that the screen never reads or writes
engineVars == <<speechQueue, currentRecognition,
                currentRecognitionSubscriptions, silenceTimeout,
                onSpeechEndCallback, onRecognitionResultCallback,
                onRecognitionErrorCallback, timers, tts, sttActive, nextId,
                silenceCount, heard, resultCount, event, emitted, fault,
                lastOp, before>>

----------------------------------------------------------------------------
(* Bounds *)
MaxSpeak == 2        \* speak() calls with a non-blank text
MaxQueueSpeak == 3   \* speak() calls of a caller that only speaks
MaxPending == 1      \* pending timers of one kind (800 ms delays, result hand-overs)
MaxResults == 2      \* calls of the result callback for one listening window
TotalQuestions == 2  \* questions of the exam
OptionCount == 3     \* options of each question: A, B, C
Duration == 2        \* timer periods left when the exam starts
MaxTasks == 2        \* async functions of the screen suspended at the same time
MaxScreenTimers == 3 \* pending setTimeout callbacks of the screen
MaxSubmit == 2       \* calls of submitExam in one session
MaxRecognized == 3   \* transcripts and errors handed to the screen in one session
MaxWords == 5        \* words of a transcript
MaxIntentWords == 3  \* words of a transcript whose branch is taken
MaxListeners == 3    \* subscribers of the screen context service
MaxExams == 2        \* exams a submission can be queued for
MaxQueueCalls == 3   \* queueSubmission() calls

Questions == 0..(TotalQuestions - 1)

\* command.slice(-15): the characters of the tail searched second
LastPartLength == 15

(* Delays of the controller, in milliseconds *)
SpeakDelay == 500
ListenDelay == 800
PostSpeechDelay == 300
silenceTimeoutDuration == 10000
ResultDelay == 0

----------------------------------------------------------------------------
(* The controller and its environment as one record, so that a handler that *)
(* calls another handler is the composition of their effects.               *)
Cur ==
    [isSpeaking |-> isSpeaking, isListening |-> isListening,
     speechQueue |-> speechQueue, currentRecognition |-> currentRecognition,
     currentRecognitionSubscriptions |-> currentRecognitionSubscriptions,
     silenceTimeout |-> silenceTimeout,
     onSpeechEndCallback |-> onSpeechEndCallback,
     onRecognitionResultCallback |-> onRecognitionResultCallback,
     onRecognitionErrorCallback |-> onRecognitionErrorCallback,
     timers |-> timers, tts |-> tts,
     sttActive |-> sttActive,
     silenceCount |-> silenceCount, heard |-> heard,
     resultCount |-> resultCount, event |-> "none",
     emitted |-> <<>>, fault |-> "none"]

\* TurnState of the spec, read off the two flags of the controller
TurnState ==
    CASE isSpeaking /\ isListening -> "Both"
      [] isSpeaking /\ ~isListening -> "Speaking"
      [] ~isSpeaking /\ isListening -> "Listening"
      [] OTHER -> "Idle"

\* the steps the history variable lastOp tells apart
TrackedOps == {"stopListening", "abortListening", "stopSpeaking", "cleanup"}

Commit(s, op) ==
    /\ isSpeaking' = s.isSpeaking
    /\ isListening' = s.isListening
    /\ speechQueue' = s.speechQueue
    /\ currentRecognition' = s.currentRecognition
    /\ currentRecognitionSubscriptions' = s.currentRecognitionSubscriptions
    /\ silenceTimeout' = s.silenceTimeout
    /\ onSpeechEndCallback' = s.onSpeechEndCallback
    /\ onRecognitionResultCallback' = s.onRecognitionResultCallback
    /\ onRecognitionErrorCallback' = s.onRecognitionErrorCallback
    /\ timers' = s.timers
    /\ tts' = s.tts
    /\ sttActive' = s.sttActive
    /\ silenceCount' = s.silenceCount
    /\ heard' = s.heard
    /\ resultCount' = s.resultCount
    /\ event' = s.event
    /\ emitted' = s.emitted
    /\ fault' = s.fault
    /\ lastOp' = IF op \in TrackedOps THEN op ELSE "other"
    /\ before' = IF op \in TrackedOps THEN TurnState ELSE "-"
    /\ UNCHANGED screenVars
    /\ UNCHANGED interpreterVars
    /\ UNCHANGED gateVars
    /\ UNCHANGED offlineVars

----------------------------------------------------------------------------
(* Timers *)
Timer(kind, text, owner) == [kind |-> kind, text |-> text, owner |-> owner]

Dur(kind) ==
    CASE kind = "speakDelay" -> SpeakDelay
      [] kind = "listenDelay" -> ListenDelay
      [] kind = "postSpeech" -> PostSpeechDelay
      [] kind = "silence" -> silenceTimeoutDuration
      [] kind = "result" -> ResultDelay

\* A timer created earlier with a delay no longer than timer i fires before it.
CanFire(i) ==
    \A j \in 1..(i - 1) : Dur(timers[j].kind) > Dur(timers[i].kind)

Pending(kind) == Len(SelectSeq(timers, LAMBDA t : t.kind = kind))

RemoveAt(seq, i) == SubSeq(seq, 1, i - 1) \o SubSeq(seq, i + 1, Len(seq))

setTimeout(s, t) == [s EXCEPT !.timers = Append(@, t)]

\* if (this.silenceTimeout) clearTimeout(this.silenceTimeout)
clearSilence(s) ==
    [s EXCEPT !.timers = SelectSeq(@, LAMBDA t : t.kind # "silence")]

\* what a step does to its surroundings, in order: a callback invoked or an
\* engine started (id 0), the promise of speak() call id settled, text id
\* handed to Speech.speak
Emit(s, e) == [s EXCEPT !.emitted = Append(@, [ev |-> e, id |-> 0])]

\* resolve() / reject() of the promise that speak() call o returned; every
\* such promise is settled by the one utterance or timer that holds it
Settle(s, o, v) == [s EXCEPT !.emitted = Append(@, [ev |-> v, id |-> o])]

\* if (this.onSpeechEndCallback) this.onSpeechEndCallback()
onSpeechEnd(s) == IF s.onSpeechEndCallback THEN Emit(s, "speechEnd") ELSE s

\* if (this.onRecognitionErrorCallback) this.onRecognitionErrorCallback({type})
onRecognitionError(s, type) ==
    IF s.onRecognitionErrorCallback THEN Emit(s, type) ELSE s

----------------------------------------------------------------------------
(* The methods of SpeechService, as functions of the state record.          *)
(* ExpoSpeechRecognitionModule.stop() and .abort() are taken not to throw   *)
(* (a throw there is caught and logged by the method).                      *)

\* stopListening() returning early when not listening, leaving a leftover
\* silence timer armed
stopListening_earlyReturn(s) ==
    IF ~s.isListening
    THEN s
    ELSE LET a == IF s.silenceTimeout # "null"
                  THEN [clearSilence(s) EXCEPT !.silenceTimeout = "null"]
                  ELSE s
             b == IF a.currentRecognition
                  THEN [a EXCEPT !.sttActive = FALSE,
                                 !.currentRecognitionSubscriptions = FALSE,
                                 !.currentRecognition = FALSE]
                  ELSE a
         IN  [b EXCEPT !.isListening = FALSE]

\* stopListening() that also discards the speech queue, as stopSpeaking() does
stopListening_clearsQueue(s) ==
    LET a == IF s.silenceTimeout # "null"
             THEN [clearSilence(s) EXCEPT !.silenceTimeout = "null"]
             ELSE s
        b == IF a.currentRecognition
             THEN [a EXCEPT !.sttActive = FALSE,
                            !.currentRecognitionSubscriptions = FALSE,
                            !.currentRecognition = FALSE]
             ELSE a
    IN  [b EXCEPT !.isListening = FALSE, !.speechQueue = <<>>]

\* stopListening(): clear the silence timer, stop the engine and drop the
\* listeners if a recognition is current, isListening = false
stopListening(s) ==
    LET a == IF s.silenceTimeout # "null"
             THEN [clearSilence(s) EXCEPT !.silenceTimeout = "null"]
             ELSE s
        b == IF a.currentRecognition
             THEN [a EXCEPT !.sttActive = FALSE,
                            !.currentRecognitionSubscriptions = FALSE,
                            !.currentRecognition = FALSE]
             ELSE a
    IN  [b EXCEPT !.isListening = FALSE]

\* abortListening(): the same effects, the engine aborted first
abortListening(s) ==
    LET a == IF s.currentRecognition
             THEN [s EXCEPT !.sttActive = FALSE,
                            !.currentRecognitionSubscriptions = FALSE,
                            !.currentRecognition = FALSE]
             ELSE s
        b == IF a.silenceTimeout # "null"
             THEN [clearSilence(a) EXCEPT !.silenceTimeout = "null"]
             ELSE a
    IN  [b EXCEPT !.isListening = FALSE]

\* Speech.stop(): every utterance the engine holds is stopped and will
\* report onStopped
SpeechStop(s) ==
    [s EXCEPT !.tts = [i \in 1..Len(s.tts) |-> [s.tts[i] EXCEPT !.stopped = TRUE]]]

\* stopSpeaking()
stopSpeaking(s) ==
    IF s.isSpeaking
    THEN [SpeechStop(s) EXCEPT !.isSpeaking = FALSE, !.speechQueue = <<>>]
    ELSE s

\* speak(), from `this.isSpeaking = true` on: the utterance is handed to
\* Speech.speak, which may throw inside the promise executor
startUtterance(s, text, owner, throws) ==
    LET a == [s EXCEPT !.isSpeaking = TRUE]
    IN  IF throws
        THEN Settle([a EXCEPT !.fault = "tts_throw"], owner, "rejected")
        ELSE [a EXCEPT !.tts = Append(@, [text |-> text, owner |-> owner,
                                          stopped |-> FALSE]),
                       !.emitted = Append(@, [ev |-> "Speech.speak",
                                              id |-> text])]

\* speak(text) for a non-blank text, up to its first suspension;
\* owner is the speak() call whose promise settles with this one
speak(s, text, owner, throws) ==
    IF s.isSpeaking
    THEN Settle([s EXCEPT !.speechQueue = Append(@, text)], owner, "resolved")
    ELSE IF s.isListening
         THEN setTimeout(stopListening(s), Timer("speakDelay", text, owner))
         ELSE startUtterance(s, text, owner, throws)

\* a new listening window opens: a transcript still waiting for its
\* setTimeout(0) belongs to the window before it (text 1, not 0)
earlierWindow(s) ==
    [s EXCEPT !.timers =
        [i \in 1..Len(s.timers) |->
            IF s.timers[i].kind = "result"
            THEN [s.timers[i] EXCEPT !.text = 1]
            ELSE s.timers[i]]]

\* startListening(), the try block: arm the silence timer, register the
\* listeners, start the engine; a throw of start() reaches both catch blocks
startRecognition(s, throws) ==
    LET a == IF s.currentRecognition THEN stopListening(s) ELSE s
        b == [a EXCEPT !.isListening = TRUE]
        c == IF b.silenceTimeout # "null" THEN clearSilence(b) ELSE b
        d == [setTimeout(earlierWindow(c), Timer("silence", 0, 0)) EXCEPT
                  !.silenceTimeout = "armed",
                  !.silenceCount = 0,
                  !.heard = FALSE,
                  !.resultCount = 0,
                  !.currentRecognitionSubscriptions = TRUE]
    IN  IF throws
        THEN onRecognitionError(
                 onRecognitionError(
                     [d EXCEPT !.currentRecognitionSubscriptions = FALSE,
                               !.isListening = FALSE,
                               !.fault = "start_throw"],
                     "unknown"),
                 "raw_error")
        ELSE Emit([d EXCEPT !.sttActive = TRUE, !.currentRecognition = TRUE],
                  "start")

\* startListening(), up to its first suspension
startListening(s, throws) ==
    IF s.isListening
    THEN s
    ELSE IF s.isSpeaking
         THEN setTimeout(stopSpeaking(s), Timer("listenDelay", 0, 0))
         ELSE startRecognition(s, throws)

\* cleanup()
cleanup(s) ==
    [stopListening(stopSpeaking(s)) EXCEPT
         !.onSpeechEndCallback = FALSE,
         !.onRecognitionResultCallback = FALSE,
         !.onRecognitionErrorCallback = FALSE]

\* the 'result' listener handing over interim transcripts as well
resultListener_forwardsInterim(s, kind) ==
    LET a == IF s.silenceTimeout # "null"
             THEN [clearSilence(s) EXCEPT !.silenceTimeout = "null"]
             ELSE s
        b == [a EXCEPT !.heard = TRUE, !.event = kind]
    IN  IF kind \in {"final", "interim"} /\ b.onRecognitionResultCallback
        THEN setTimeout([b EXCEPT !.isListening = FALSE], Timer("result", 0, 0))
        ELSE b

\* the 'result' listener; kind is "final", "interim" (a transcript with
\* isFinal false) or "empty" (null event, no results, blank transcript)
resultListener(s, kind) ==
    LET a == IF s.silenceTimeout # "null"
             THEN [clearSilence(s) EXCEPT !.silenceTimeout = "null"]
             ELSE s
        b == [a EXCEPT !.heard = TRUE, !.event = kind]
    IN  IF kind = "final" /\ b.onRecognitionResultCallback
        THEN setTimeout([b EXCEPT !.isListening = FALSE], Timer("result", 0, 0))
        ELSE b

\* the setTimeout(0) callback of the 'result' listener: the transcript is
\* handed to the result callback, if one is still registered
resultCallback(s) ==
    IF s.onRecognitionResultCallback THEN Emit(s, "result") ELSE s

\* the same callback, the call counted for the window of its transcript;
\* window is 0 for the window that is open or was opened last
resultCallbackCounted(s, window) ==
    IF s.onRecognitionResultCallback /\ window = 0
    THEN resultCallback([s EXCEPT !.resultCount = @ + 1])
    ELSE resultCallback(s)

\* the 'error' listener
errorListener(s) ==
    LET a == IF s.silenceTimeout # "null"
             THEN [clearSilence(s) EXCEPT !.silenceTimeout = "null"]
             ELSE s
    IN  onRecognitionError([a EXCEPT !.isListening = FALSE,
                                     !.heard = TRUE,
                                     !.fault = "stt_error"], "engine_error")

\* the silence timer's callback
silenceCallback(s) ==
    LET a == [s EXCEPT !.silenceTimeout = "fired"]
    IN  IF a.isListening /\ a.onRecognitionErrorCallback
        THEN Emit([a EXCEPT !.silenceCount = @ + 1], "silence_timeout")
        ELSE a

\* the setTimeout callback of onDone, 300 ms after the utterance completed
postSpeechCallback(s, owner, throws) ==
    IF Len(s.speechQueue) > 0
    THEN speak([s EXCEPT !.speechQueue = Tail(@)], Head(s.speechQueue),
               owner, throws)
    ELSE Settle(onSpeechEnd(s), owner, "resolved")

\* onDone / onStopped / onError of the utterance at the head of the engine
onDone(s) ==
    LET u == Head(s.tts)
    IN  setTimeout([s EXCEPT !.isSpeaking = FALSE, !.tts = Tail(@)],
                   Timer("postSpeech", 0, u.owner))

onStopped(s) ==
    LET u == Head(s.tts)
    IN  Settle(onSpeechEnd([s EXCEPT !.isSpeaking = FALSE, !.tts = Tail(@)]),
               u.owner, "resolved")

onError(s) ==
    LET u == Head(s.tts)
    IN  Settle(onSpeechEnd([s EXCEPT !.isSpeaking = FALSE, !.tts = Tail(@),
                                     !.fault = "tts_error"]),
               u.owner, "rejected")

----------------------------------------------------------------------------
InitController ==
    /\ isSpeaking = FALSE
    /\ isListening = FALSE
    /\ speechQueue = <<>>
    /\ currentRecognition = FALSE
    /\ currentRecognitionSubscriptions = FALSE
    /\ silenceTimeout = "null"
    /\ onSpeechEndCallback = FALSE
    /\ onRecognitionResultCallback = FALSE
    /\ onRecognitionErrorCallback = FALSE
    /\ timers = <<>>
    /\ tts = <<>>
    /\ sttActive = FALSE
    /\ nextId = 1
    /\ silenceCount = 0
    /\ heard = FALSE
    /\ resultCount = 0
    /\ event = "none"
    /\ emitted = <<>>
    /\ fault = "none"
    /\ lastOp = "other"
    /\ before = "-"

\* the exam screen before any of its handlers has run
InitExamPage ==
    /\ mounted = TRUE
    /\ speechInitializedRef = FALSE
    /\ isProcessingCommandRef = FALSE
    /\ isWaitingForConfirmationRef = FALSE
    /\ hasReadFirstQuestionRef = FALSE
    /\ currentQuestionIndexRef = 0
    /\ currentQuestionIndex = 0
    /\ answersRef = <<>>
    /\ submitting = FALSE
    /\ timeRemaining = Duration
    /\ tasks = {}
    /\ screenTimers = <<>>
    /\ recognized = 0
    /\ submitCount = 0
    /\ sinkBy = "none"
    /\ out = {}
    /\ lastStep = "none"
    /\ transcript = <<>>
    /\ selectedLetter = "-"
    /\ questionType = "-"
    /\ intent = "-"

\* the screen context service after its constructor
InitContextService ==
    /\ listeners = <<>>
    /\ notified = <<>>
    /\ lastSet = "-"

\* no submission is pending and neither function of the queue is running
InitOffline ==
    /\ pendingSubmissions = <<>>
    /\ queueCall = [pc |-> "idle", examId |-> 0, answers |-> 0,
                    pending |-> <<>>]
    /\ syncCall = [pc |-> "idle", pending |-> <<>>, k |-> 1,
                   failed |-> <<>>, synced |-> 0]
    /\ queueSerial = 0
    /\ submitted = {}
    /\ latest = [e \in 1..MaxExams |-> 0]

\* the exam screen has been opened from the home screen and has loaded its
\* exam: handleSelectExam has set the context, the controller still holds
\* the callbacks of the home screen
Init ==
    /\ InitController
    /\ InitExamPage
    /\ InitContextService
    /\ InitOffline
    /\ context = "EXAM"
    /\ registered = "HOME"
    /\ homeSpeechInitializedRef = TRUE
    /\ homeIsProcessingCommandRef = FALSE
    /\ examPageOpen = TRUE

\* the application has opened the home screen and has loaded the exams
InitHome ==
    /\ InitController
    /\ InitExamPage
    /\ InitContextService
    /\ InitOffline
    /\ context = "null"
    /\ registered = "none"
    /\ homeSpeechInitializedRef = FALSE
    /\ homeIsProcessingCommandRef = FALSE
    /\ examPageOpen = FALSE

----------------------------------------------------------------------------
(* Calls of the public methods, by any caller at any time *)

SpeakUpTo(max) ==
    /\ nextId <= max
    /\ \E throws \in BOOLEAN :
          Commit(speak(Cur, nextId, nextId, throws), "speak")
    /\ nextId' = nextId + 1

Speak == SpeakUpTo(MaxSpeak)

\* speak() with an empty or blank text returns at once
SpeakBlank ==
    /\ Commit(Cur, "speakBlank")
    /\ UNCHANGED nextId

StopSpeaking ==
    /\ Commit(stopSpeaking(Cur), "stopSpeaking")
    /\ UNCHANGED nextId

StartListening ==
    /\ Pending("listenDelay") < MaxPending
    /\ \E throws \in BOOLEAN :
          Commit(startListening(Cur, throws), "startListening")
    /\ UNCHANGED nextId

StopListening ==
    /\ Commit(stopListening(Cur), "stopListening")
    /\ UNCHANGED nextId

AbortListening ==
    /\ Commit(abortListening(Cur), "abortListening")
    /\ UNCHANGED nextId

\* the setters are called with a function by every caller; only cleanup()
\* resets a callback to null
SetOnSpeechEnd ==
    /\ Commit([Cur EXCEPT !.onSpeechEndCallback = TRUE], "setOnSpeechEnd")
    /\ UNCHANGED nextId

SetOnRecognitionResult ==
    /\ Commit([Cur EXCEPT !.onRecognitionResultCallback = TRUE],
              "setOnRecognitionResult")
    /\ UNCHANGED nextId

SetOnRecognitionError ==
    /\ Commit([Cur EXCEPT !.onRecognitionErrorCallback = TRUE],
              "setOnRecognitionError")
    /\ UNCHANGED nextId

Cleanup ==
    /\ Commit(cleanup(Cur), "cleanup")
    /\ UNCHANGED nextId

(* Timer callbacks *)

Fired(i) == [Cur EXCEPT !.timers = RemoveAt(@, i)]

\* speak() resumes after `await setTimeout(500)`
SpeakDelayTimer ==
    /\ \E i \in 1..Len(timers) :
          /\ timers[i].kind = "speakDelay"
          /\ CanFire(i)
          /\ \E throws \in BOOLEAN :
                Commit(startUtterance(Fired(i), timers[i].text,
                                      timers[i].owner, throws),
                       "speakDelayTimer")
    /\ UNCHANGED nextId

\* startListening() resumes after `await setTimeout(800)`
ListenDelayTimer ==
    /\ \E i \in 1..Len(timers) :
          /\ timers[i].kind = "listenDelay"
          /\ CanFire(i)
          /\ \E throws \in BOOLEAN :
                Commit(startRecognition(Fired(i), throws), "listenDelayTimer")
    /\ UNCHANGED nextId

PostSpeechTimer ==
    /\ \E i \in 1..Len(timers) :
          /\ timers[i].kind = "postSpeech"
          /\ CanFire(i)
          /\ \E throws \in BOOLEAN :
                Commit(postSpeechCallback(Fired(i), timers[i].owner, throws),
                       "postSpeechTimer")
    /\ UNCHANGED nextId

SilenceTimer ==
    /\ \E i \in 1..Len(timers) :
          /\ timers[i].kind = "silence"
          /\ CanFire(i)
          /\ Commit(silenceCallback(Fired(i)), "silenceTimer")
    /\ UNCHANGED nextId

\* the setTimeout(0) that hands a final transcript to the result callback
ResultTimer ==
    /\ \E i \in 1..Len(timers) :
          /\ timers[i].kind = "result"
          /\ CanFire(i)
          /\ Commit(resultCallback(Fired(i)), "resultTimer")
    /\ UNCHANGED nextId

\* the same step, with the calls of the result callback counted
ResultTimerCounted ==
    /\ \E i \in 1..Len(timers) :
          /\ timers[i].kind = "result"
          /\ CanFire(i)
          /\ Commit(resultCallbackCounted(Fired(i), timers[i].text),
                    "resultTimer")
    /\ UNCHANGED nextId

(* Engine events *)

TtsDone ==
    /\ Len(tts) > 0
    /\ ~Head(tts).stopped
    /\ Commit(onDone(Cur), "ttsDone")
    /\ UNCHANGED nextId

TtsStopped ==
    /\ Len(tts) > 0
    /\ Head(tts).stopped
    /\ Commit(onStopped(Cur), "ttsStopped")
    /\ UNCHANGED nextId

TtsError ==
    /\ Len(tts) > 0
    /\ ~Head(tts).stopped
    /\ Commit(onError(Cur), "ttsError")
    /\ UNCHANGED nextId

SttResult ==
    /\ sttActive
    /\ currentRecognitionSubscriptions
    /\ Pending("result") < MaxPending
    /\ resultCount < MaxResults
    /\ \E kind \in {"final", "interim", "empty"} :
          Commit(resultListener(Cur, kind), "sttResult")
    /\ UNCHANGED nextId

\* an 'error' event ends the engine's session
SttError ==
    /\ sttActive
    /\ currentRecognitionSubscriptions
    /\ Commit(errorListener([Cur EXCEPT !.sttActive = FALSE]), "sttError")
    /\ UNCHANGED nextId

\* the engine's session ends by itself (continuous: false); the controller
\* registers no listener for it
SttEnd ==
    /\ sttActive
    /\ Commit([Cur EXCEPT !.sttActive = FALSE], "sttEnd")
    /\ UNCHANGED nextId

Next ==
    \/ Speak
    \/ SpeakBlank
    \/ StopSpeaking
    \/ StartListening
    \/ StopListening
    \/ AbortListening
    \/ SetOnSpeechEnd
    \/ SetOnRecognitionResult
    \/ SetOnRecognitionError
    \/ Cleanup
    \/ SpeakDelayTimer
    \/ ListenDelayTimer
    \/ PostSpeechTimer
    \/ SilenceTimer
    \/ ResultTimer
    \/ TtsDone
    \/ TtsStopped
    \/ TtsError
    \/ SttResult
    \/ SttError
    \/ SttEnd

Spec == Init /\ [][Next]_vars

\* Timers fire: a pending setTimeout callback is eventually run
FairSpec ==
    /\ Spec
    /\ WF_vars(SpeakDelayTimer)
    /\ WF_vars(ListenDelayTimer)
    /\ WF_vars(PostSpeechTimer)
    /\ WF_vars(SilenceTimer)
    /\ WF_vars(ResultTimer)

\* A caller that only speaks: no listening operation is ever called
SpeakMany == SpeakUpTo(MaxQueueSpeak)

NextSpeaking ==
    \/ SpeakMany
    \/ StopSpeaking
    \/ SetOnSpeechEnd
    \/ PostSpeechTimer
    \/ TtsDone
    \/ TtsStopped
    \/ TtsError

SpecSpeaking == Init /\ [][NextSpeaking]_vars

\* A caller that only listens: no speech is ever requested
NextListening ==
    \/ StartListening
    \/ StopListening
    \/ AbortListening
    \/ SetOnRecognitionResult
    \/ SetOnRecognitionError
    \/ Cleanup
    \/ SilenceTimer
    \/ ResultTimerCounted
    \/ SttResult
    \/ SttError
    \/ SttEnd

SpecListening == Init /\ [][NextListening]_vars

----------------------------------------------------------------------------
(***************************************************************************)
(* The exam screen (src/src/screens/student/ExamPage.js): the dialog        *)
(* session that interprets final transcripts, the submit confirmation, the  *)
(* countdown that submits the exam when it expires, and the timers that     *)
(* re-open listening.  The screen sees the controller through its two      *)
(* flags; speak() is a call that suspends the calling async function until  *)
(* the controller settles the promise, and each such suspended function is  *)
(* a task.  A step runs a handler from its entry, or from the await it was  *)
(* suspended at, to its next await or its end.                              *)
(***************************************************************************)

\* final transcripts after toLowerCase().trim(), one of each kind the
\* interpreter tells apart; "a" and "d" are option letters, "other" matches
\* no keyword
Commands == {"yes", "no", "next", "previous", "repeat", "submit", "exit",
             "a", "d", "other"}

Letters == {"a", "b", "c", "d"}

\* selectedLetter.charCodeAt(0) - 65 of the upper-cased letter
OptionIndex(letter) ==
    CASE letter = "a" -> 0 [] letter = "b" -> 1
      [] letter = "c" -> 2 [] letter = "d" -> 3

\* toUpperCase() of an option letter
ToUpperCase(letter) ==
    CASE letter = "a" -> "A" [] letter = "b" -> "B"
      [] letter = "c" -> "C" [] letter = "d" -> "D"

Scr ==
    [isSpeaking |-> isSpeaking, isListening |-> isListening,
     context |-> context, registered |-> registered,
     homeSpeechInitializedRef |-> homeSpeechInitializedRef,
     homeIsProcessingCommandRef |-> homeIsProcessingCommandRef,
     examPageOpen |-> examPageOpen, mounted |-> mounted,
     speechInitializedRef |-> speechInitializedRef,
     isProcessingCommandRef |-> isProcessingCommandRef,
     isWaitingForConfirmationRef |-> isWaitingForConfirmationRef,
     hasReadFirstQuestionRef |-> hasReadFirstQuestionRef,
     currentQuestionIndexRef |-> currentQuestionIndexRef,
     currentQuestionIndex |-> currentQuestionIndex,
     answersRef |-> answersRef, submitting |-> submitting,
     timeRemaining |-> timeRemaining, tasks |-> tasks,
     screenTimers |-> screenTimers, recognized |-> recognized,
     submitCount |-> submitCount,
     sinkBy |-> sinkBy, out |-> {}]

\* the steps of the screen the history variables lastStep and out tell apart
TrackedSteps == {"handleVoiceCommand", "handleSpeechError", "timer",
                 "homeTimer"}

\* the screen after a step, and what the step did
ScreenUpdate(d, step) ==
    /\ Cardinality(d.tasks) <= MaxTasks
    /\ Len(d.screenTimers) <= MaxScreenTimers
    /\ d.submitCount <= MaxSubmit
    /\ d.recognized <= MaxRecognized
    /\ isSpeaking' = d.isSpeaking
    /\ isListening' = d.isListening
    /\ context' = d.context
    /\ registered' = d.registered
    /\ homeSpeechInitializedRef' = d.homeSpeechInitializedRef
    /\ homeIsProcessingCommandRef' = d.homeIsProcessingCommandRef
    /\ examPageOpen' = d.examPageOpen
    /\ mounted' = d.mounted
    /\ speechInitializedRef' = d.speechInitializedRef
    /\ isProcessingCommandRef' = d.isProcessingCommandRef
    /\ isWaitingForConfirmationRef' = d.isWaitingForConfirmationRef
    /\ hasReadFirstQuestionRef' = d.hasReadFirstQuestionRef
    /\ currentQuestionIndexRef' = d.currentQuestionIndexRef
    /\ currentQuestionIndex' = d.currentQuestionIndex
    /\ answersRef' = d.answersRef
    /\ submitting' = d.submitting
    /\ timeRemaining' = d.timeRemaining
    /\ tasks' = d.tasks
    /\ screenTimers' = d.screenTimers
    /\ recognized' = d.recognized
    /\ submitCount' = d.submitCount
    /\ sinkBy' = d.sinkBy
    /\ out' = IF step \in TrackedSteps THEN d.out ELSE {}
    /\ lastStep' = IF step \in TrackedSteps THEN step ELSE "other"

CommitScreen(d, step) ==
    /\ ScreenUpdate(d, step)
    /\ UNCHANGED engineVars
    /\ UNCHANGED interpreterVars
    /\ UNCHANGED gateVars
    /\ UNCHANGED offlineVars

\* an async function suspended at an await: the function, what it was
\* called with or for, and the await it is suspended at
Task(fn, arg, pc) == [fn |-> fn, arg |-> arg, pc |-> pc]

\* the delay of each setTimeout of the screen, in milliseconds
ScreenDelay(kind) ==
    CASE kind \in {"navRead", "homeSpeechEnd"} -> 300
      [] kind \in {"speechEnd", "initMark", "effectRead", "noRead", "relisten",
                   "homeRelisten"} -> 500
      [] kind \in {"initRead", "initListen", "effectListen", "noListen",
                   "confirmListen", "errListen", "navigate",
                   "homeErrListen"} -> 1000
      [] kind = "optListen" -> 1500

\* a timer fires once every timer created before it with a delay no longer
\* than its own has fired
CanFireScreen(i) ==
    \A j \in 1..(i - 1) :
        ScreenDelay(screenTimers[j]) > ScreenDelay(screenTimers[i])

setScreenTimeout(d, kind) == [d EXCEPT !.screenTimers = Append(@, kind)]

NotEffectRead(kind) == kind # "effectRead"

\* the setTimeout calls of the home screen
HomeTimers == {"homeSpeechEnd", "homeRelisten", "homeErrListen"}

\* the controller hands a final transcript or an error to the screen
recognize(d) == [d EXCEPT !.recognized = @ + 1]

\* the controller as the screen calls it
svcStopListening(d) == [d EXCEPT !.isListening = FALSE]

svcStopSpeaking(d) == [d EXCEPT !.isSpeaking = FALSE]

\* cleanup() also drops the callbacks
svcCleanup(d) ==
    [svcStopSpeaking(svcStopListening(d)) EXCEPT !.registered = "none"]

\* startListening(): returns at once if a window is open, stops a speech
\* in progress, opens the window
svcStartListening(d) ==
    IF d.isListening THEN d
    ELSE [d EXCEPT !.isSpeaking = FALSE, !.isListening = TRUE,
                   !.out = @ \cup {"listen"}]

\* `await speechService.speak(...)`: the request is queued if a speech is in
\* progress, else a listening window is stopped first; the caller t is
\* suspended until the promise settles
svcSpeak(d, t) ==
    [d EXCEPT !.isListening = IF d.isSpeaking THEN @ ELSE FALSE,
              !.isSpeaking = TRUE,
              !.tasks = @ \cup {t},
              !.out = @ \cup {"speak"}]

\* a render after a state change: handleVoiceCommand depends on the
\* unmemoized saveAnswer, so the effect of initializeSpeech is cleaned up
\* and the `mounted` flag its callbacks captured becomes false
rerender(d) == [d EXCEPT !.mounted = FALSE]

\* isInitializingRef: true from the welcome message until the first
\* question has been read
isInitializingRef(d) == d.speechInitializedRef /\ ~d.hasReadFirstQuestionRef

\* the effect on currentQuestionIndex: its cleanup clears the timer of the
\* previous run; it reads the new question after 500 ms unless the screen is
\* initializing or the first question was already read
questionEffect(d) ==
    LET c == [d EXCEPT !.screenTimers = SelectSeq(@, NotEffectRead)]
    IN IF isInitializingRef(c) \/ ~c.speechInitializedRef THEN c
       ELSE IF c.currentQuestionIndex = 0 /\ c.hasReadFirstQuestionRef THEN c
       ELSE setScreenTimeout(c, "effectRead")

\* the branch of handleNextQuestion / handlePreviousQuestion that moves
moveTo(d, index) ==
    questionEffect(rerender(
        setScreenTimeout([d EXCEPT !.currentQuestionIndexRef = index,
                                   !.currentQuestionIndex = index],
                         "navRead")))

\* currentQuestion.options[optionIndex] of the question handleVoiceCommand
\* reads through currentQuestionIndexRef: the text of an option is the
\* question it belongs to and its letter
selectedOption(d, letter) ==
    [question |-> d.currentQuestionIndexRef, letter |-> ToUpperCase(letter)]

\* saveAnswer(selectedOption): the earlier answer to currentQuestion, the
\* question of the last render, is filtered out and the new one is
\* appended; a question's id is its index
saveAnswer(d, letter) ==
    LET currentQuestion == d.currentQuestionIndex
        other(entry) == entry.questionId # currentQuestion
    IN rerender([d EXCEPT !.answersRef =
                    Append(SelectSeq(@, other),
                           [questionId |-> currentQuestion,
                            answer |-> selectedOption(d, letter)])])

\* readCurrentQuestion(): the question and its options are spoken; the
\* speeches of one reading are one speech here
readCurrentQuestion(d, t) == svcSpeak(d, t)

\* the cleanup of the exam screen when it is left; the home screen gets
\* the focus back, sets its context and registers its callbacks again
unmount(d) ==
    LET a == svcStopSpeaking(svcStopListening(d))
    IN [a EXCEPT !.examPageOpen = FALSE, !.mounted = FALSE,
                 !.context = "HOME",
                 !.registered = IF d.homeSpeechInitializedRef
                                THEN "HOME" ELSE @,
                 !.screenTimers = SelectSeq(@, NotEffectRead)]

\* submitExamAnswers(), to the call of submitExam
submitExamAnswers(d, t) ==
    LET a == rerender([d EXCEPT !.submitting = TRUE,
                                !.isWaitingForConfirmationRef = FALSE])
        b == svcStopSpeaking(svcStopListening(a))
    IN [b EXCEPT !.submitCount = @ + 1, !.sinkBy = t.arg,
                 !.out = @ \cup {"submitExam"},
                 !.tasks = @ \cup {[t EXCEPT !.pc = "sink"]}]

\* the finally block of handleVoiceCommand
finally(d) ==
    LET e == [d EXCEPT !.isProcessingCommandRef = FALSE]
    IN IF ~e.isWaitingForConfirmationRef THEN setScreenTimeout(e, "relisten")
       ELSE e

\* handleVoiceCommand past the guards with a submit command that submits
\* without a confirmation
interpret_submitsAtOnce(d, command) ==
    LET t == Task("handleVoiceCommand", command, "command")
        currentIndex == d.currentQuestionIndexRef
        isLastQuestion == currentIndex = TotalQuestions - 1
    IN CASE command \in Letters ->
              IF OptionIndex(command) < OptionCount
              THEN svcSpeak(saveAnswer(d, command), t)
              ELSE svcSpeak(d, t)
         [] command = "next" ->
              IF isLastQuestion THEN svcSpeak(d, t)
              ELSE finally(moveTo(d, currentIndex + 1))
         [] command = "previous" ->
              IF currentIndex > 0 THEN finally(moveTo(d, currentIndex - 1))
              ELSE svcSpeak(d, t)
         [] command = "repeat" -> readCurrentQuestion(d, t)
         [] command = "submit" -> submitExamAnswers(d, t)
         [] OTHER -> svcSpeak(d, t)

\* handleVoiceCommand past the guards with a next command that always moves
interpret_nextUnchecked(d, command) ==
    LET t == Task("handleVoiceCommand", command, "command")
        currentIndex == d.currentQuestionIndexRef
    IN CASE command \in Letters ->
              IF OptionIndex(command) < OptionCount
              THEN svcSpeak(saveAnswer(d, command), t)
              ELSE svcSpeak(d, t)
         [] command = "next" -> finally(moveTo(d, currentIndex + 1))
         [] command = "previous" ->
              IF currentIndex > 0 THEN finally(moveTo(d, currentIndex - 1))
              ELSE svcSpeak(d, t)
         [] command = "repeat" -> readCurrentQuestion(d, t)
         [] command = "submit" ->
              svcSpeak([d EXCEPT !.isWaitingForConfirmationRef = TRUE], t)
         [] OTHER -> svcSpeak(d, t)

\* handleVoiceCommand past the guards without the range check of the option
interpret_savesAnyLetter(d, command) ==
    LET t == Task("handleVoiceCommand", command, "command")
        currentIndex == d.currentQuestionIndexRef
        isLastQuestion == currentIndex = TotalQuestions - 1
    IN CASE command \in Letters -> svcSpeak(saveAnswer(d, command), t)
         [] command = "next" ->
              IF isLastQuestion THEN svcSpeak(d, t)
              ELSE finally(moveTo(d, currentIndex + 1))
         [] command = "previous" ->
              IF currentIndex > 0 THEN finally(moveTo(d, currentIndex - 1))
              ELSE svcSpeak(d, t)
         [] command = "repeat" -> readCurrentQuestion(d, t)
         [] command = "submit" ->
              svcSpeak([d EXCEPT !.isWaitingForConfirmationRef = TRUE], t)
         [] OTHER -> svcSpeak(d, t)

\* handleVoiceCommand past the guards, to its first await
interpret(d, command) ==
    LET t == Task("handleVoiceCommand", command, "command")
        currentIndex == d.currentQuestionIndexRef
        isLastQuestion == currentIndex = TotalQuestions - 1
    IN CASE command \in Letters ->
              IF OptionIndex(command) < OptionCount
              THEN svcSpeak(saveAnswer(d, command), t)
              ELSE svcSpeak(d, t)
         [] command = "next" ->
              IF isLastQuestion THEN svcSpeak(d, t)
              ELSE finally(moveTo(d, currentIndex + 1))
         [] command = "previous" ->
              IF currentIndex > 0 THEN finally(moveTo(d, currentIndex - 1))
              ELSE svcSpeak(d, t)
         [] command = "repeat" -> readCurrentQuestion(d, t)
         [] command = "submit" ->
              svcSpeak([d EXCEPT !.isWaitingForConfirmationRef = TRUE], t)
         [] OTHER -> svcSpeak(d, t)

\* handleVoiceCommand without the check of the screen context
handleVoiceCommand_noContextCheck(d, command) ==
    IF d.isProcessingCommandRef THEN d
    ELSE IF d.isWaitingForConfirmationRef /\ command \in {"yes", "no"}
    THEN svcSpeak(svcStopListening([d EXCEPT !.isProcessingCommandRef = TRUE]),
                  Task("handleVoiceCommand", command, "confirm"))
    ELSE interpret(svcStopListening([d EXCEPT !.isProcessingCommandRef = TRUE]),
                   command)

\* handleVoiceCommand without the test of the guard at its entry
handleVoiceCommand_noGuard(d, command) ==
    IF d.context # "EXAM" THEN d
    ELSE IF d.isWaitingForConfirmationRef /\ command \in {"yes", "no"}
    THEN svcSpeak(svcStopListening([d EXCEPT !.isProcessingCommandRef = TRUE]),
                  Task("handleVoiceCommand", command, "confirm"))
    ELSE interpret(svcStopListening([d EXCEPT !.isProcessingCommandRef = TRUE]),
                   command)

\* handleVoiceCommand(transcript), to its first await
handleVoiceCommand(d, command) ==
    IF d.isProcessingCommandRef THEN d
    ELSE IF d.context # "EXAM" THEN d
    ELSE IF d.isWaitingForConfirmationRef /\ command \in {"yes", "no"}
    THEN svcSpeak(svcStopListening([d EXCEPT !.isProcessingCommandRef = TRUE]),
                  Task("handleVoiceCommand", command, "confirm"))
    ELSE interpret(svcStopListening([d EXCEPT !.isProcessingCommandRef = TRUE]),
                   command)

\* handleSpeechError(error), to its first await
handleSpeechError(d, type) ==
    IF type = "silence_timeout"
    THEN svcSpeak(d, Task("handleSpeechError", type, "prompt"))
    ELSE IF ~d.isWaitingForConfirmationRef
    THEN setScreenTimeout(d, "errListen")
    ELSE d

\* the callback registered with setOnSpeechEnd
examOnSpeechEnd(d) ==
    IF /\ d.registered = "EXAM"
       /\ d.speechInitializedRef
       /\ d.mounted
       /\ d.context = "EXAM"
       /\ ~d.isWaitingForConfirmationRef
       /\ d.hasReadFirstQuestionRef
    THEN setScreenTimeout(d, "speechEnd")
    ELSE d

\* submitExamAnswers resumed after one of its speeches settled; the two
\* speeches of the result are one speech here
resumeSubmit(d, t, ok) ==
    IF t.pc = "announce"
    THEN IF ok THEN setScreenTimeout([d EXCEPT !.context = "HOME"], "navigate")
         ELSE svcSpeak(d, [t EXCEPT !.pc = "failed"])
    ELSE IF ok THEN rerender([d EXCEPT !.submitting = FALSE])
    ELSE d

\* handleVoiceCommand resumed after the speech it awaited settled
resumeCommand(d, t, ok) ==
    LET catch == svcSpeak(d, [t EXCEPT !.pc = "catch"])
    IN CASE t.pc = "confirm" ->
              IF ~ok THEN d
              ELSE IF t.arg = "yes"
              THEN submitExamAnswers(
                       [d EXCEPT !.isWaitingForConfirmationRef = FALSE], t)
              ELSE [setScreenTimeout(d, "noRead")
                       EXCEPT !.isWaitingForConfirmationRef = FALSE,
                              !.isProcessingCommandRef = FALSE]
         [] t.pc = "catch" -> finally(d)
         [] t.pc \in {"announce", "failed"} -> resumeSubmit(d, t, ok)
         [] t.pc = "command" /\ t.arg = "repeat" -> finally(d)
         [] t.pc = "command" /\ t.arg # "repeat" /\ ~ok -> catch
         [] t.pc = "command" /\ t.arg \in Letters /\ ok ->
              finally(setScreenTimeout(
                  [d EXCEPT !.isProcessingCommandRef = FALSE], "optListen"))
         [] t.pc = "command" /\ t.arg = "submit" /\ ok ->
              finally(setScreenTimeout(d, "confirmListen"))
         [] t.pc = "command" /\ t.arg = "exit" /\ ok ->
              finally(unmount(svcCleanup(d)))
         [] OTHER -> finally(d)

(* The home screen (src/src/screens/student/HomePage.js) *)

\* final transcripts after toLowerCase().trim(), one of each kind the home
\* screen tells apart; "begin exam 1" names an exam the student may attempt
HomeCommands == {"list exams", "begin exam 1", "repeat", "exit", "other"}

\* the finally block of HomePage.handleVoiceCommand
homeFinally(d) ==
    setScreenTimeout([d EXCEPT !.homeIsProcessingCommandRef = FALSE],
                     "homeRelisten")

\* HomePage.handleVoiceCommand(transcript), to its first speech; the
\* eligibility query of handleSelectExam is part of the step
homeHandleVoiceCommand(d, command) ==
    IF d.homeIsProcessingCommandRef THEN d
    ELSE IF d.context # "HOME" THEN d
    ELSE svcSpeak(
             svcStopListening([d EXCEPT !.homeIsProcessingCommandRef = TRUE]),
             Task("HomePage.handleVoiceCommand", command, "command"))

\* HomePage.handleVoiceCommand resumed after the speech it awaited settled
resumeHome(d, t, ok) ==
    CASE t.pc = "command" /\ ok /\ t.arg = "begin exam 1" ->
              \* setContext("EXAM"), navigate: the home screen loses the focus
              homeFinally(svcStopListening([d EXCEPT !.context = "EXAM"]))
      [] t.pc = "command" /\ ok /\ t.arg = "exit" -> homeFinally(svcCleanup(d))
      [] t.pc = "command" /\ ~ok /\ t.arg = "begin exam 1" ->
              svcSpeak(d, [t EXCEPT !.pc = "failed"])
      [] t.pc \in {"command", "failed"} /\ ~ok ->
              svcSpeak(d, [t EXCEPT !.pc = "catch"])
      [] OTHER -> homeFinally(d)

\* HomePage.handleSpeechError(error), to its first await
homeHandleSpeechError(d, type) ==
    IF type = "silence_timeout"
    THEN svcSpeak(d, Task("HomePage.handleSpeechError", type, "prompt"))
    ELSE setScreenTimeout(d, "homeErrListen")

\* the callback the home screen registered with setOnSpeechEnd
homeOnSpeechEnd(d) ==
    IF d.context = "HOME" THEN setScreenTimeout(d, "homeSpeechEnd") ELSE d

\* the speech-end callback the controller holds
speechEndCallback(d) ==
    CASE d.registered = "EXAM" -> examOnSpeechEnd(d)
      [] d.registered = "HOME" -> homeOnSpeechEnd(d)
      [] OTHER -> d

\* an async function of the screen resumed after the speech it awaited
\* settled: resolved (ok) or rejected
resume(d, t, ok) ==
    CASE t.fn = "handleVoiceCommand" -> resumeCommand(d, t, ok)
      [] t.fn = "HomePage.handleVoiceCommand" -> resumeHome(d, t, ok)
      [] t.fn = "handleAutoSubmit" -> resumeSubmit(d, t, ok)
      [] t.fn = "readCurrentQuestion" /\ t.arg = "init" ->
           setScreenTimeout(d, "initMark")
      [] t.fn = "readCurrentQuestion" /\ t.arg = "no" ->
           setScreenTimeout(d, "noListen")
      [] t.fn = "readCurrentQuestion" /\ t.arg = "effect" ->
           setScreenTimeout(d, "effectListen")
      [] t.fn = "initializeSpeech" /\ ok -> setScreenTimeout(d, "initRead")
      [] OTHER -> d

\* the callback of a setTimeout of the screen
screenTimerCallback(d, kind) ==
    LET exam == d.context = "EXAM"
        idle == ~d.isListening /\ ~d.isSpeaking
        read(origin) ==
            readCurrentQuestion(d, Task("readCurrentQuestion", origin, "read"))
    IN CASE kind \in {"relisten", "errListen"} ->
              IF exam THEN svcStartListening(d) ELSE d
         [] kind \in {"optListen", "initListen"} ->
              IF exam /\ ~d.isSpeaking THEN svcStartListening(d) ELSE d
         [] kind \in {"confirmListen", "noListen", "speechEnd"} ->
              IF exam /\ idle THEN svcStartListening(d) ELSE d
         [] kind = "effectListen" ->
              IF exam /\ idle /\ ~d.isWaitingForConfirmationRef
              THEN svcStartListening(d) ELSE d
         [] kind = "initRead" -> read("init")
         [] kind = "effectRead" -> read("effect")
         [] kind = "navRead" -> read("nav")
         [] kind = "noRead" -> read("no")
         [] kind = "initMark" ->
              setScreenTimeout([d EXCEPT !.hasReadFirstQuestionRef = TRUE],
                               "initListen")
         [] kind = "navigate" -> unmount(d)
         [] kind = "homeSpeechEnd" -> svcStartListening(d)
         [] kind \in {"homeRelisten", "homeErrListen"} ->
              IF d.context = "HOME" THEN svcStartListening(d) ELSE d

(* The steps of the exam screen *)

\* initializeSpeech(), from the registration of the callbacks to the
\* welcome message
InitializeSpeech ==
    /\ examPageOpen
    /\ ~speechInitializedRef
    /\ CommitScreen(
           svcSpeak([Scr EXCEPT !.registered = "EXAM",
                                !.speechInitializedRef = TRUE,
                                !.context = "EXAM",
                                !.hasReadFirstQuestionRef = FALSE],
                    Task("initializeSpeech", "welcome", "welcome")),
           "initializeSpeech")

\* the controller hands a final transcript of the open window to the
\* registered handler
ExamVoiceCommand ==
    /\ registered = "EXAM"
    /\ isListening
    /\ \E command \in Commands :
          CommitScreen(handleVoiceCommand(svcStopListening(recognize(Scr)),
                                          command),
                       "handleVoiceCommand")

\* the controller reports a silence timeout (the window stays open) or an
\* engine error (the window is closed) to the registered handler
ExamSpeechError ==
    /\ registered = "EXAM"
    /\ isListening
    /\ \/ CommitScreen(handleSpeechError(recognize(Scr), "silence_timeout"),
                       "handleSpeechError")
       \/ CommitScreen(handleSpeechError(svcStopListening(recognize(Scr)),
                                         "error"),
                       "handleSpeechError")

\* the controller settles the promise of a speak() call: the speech-end
\* callback runs, then the caller resumes
SpeechSettled ==
    \E t \in tasks, ok \in BOOLEAN :
        /\ t.pc # "sink"
        /\ CommitScreen(
               resume(speechEndCallback([Scr EXCEPT !.tasks = @ \ {t},
                                                    !.isSpeaking = FALSE]),
                      t, ok),
               "speechSettled")

\* submitExam settles: the result is announced, or the failure is
SubmitExamSettled ==
    \E t \in tasks, ok \in BOOLEAN :
        /\ t.pc = "sink"
        /\ CommitScreen(
               svcSpeak([Scr EXCEPT !.tasks = @ \ {t}],
                        [t EXCEPT !.pc = IF ok THEN "announce" ELSE "failed"]),
               "submitExamSettled")

ScreenTimer ==
    \E i \in 1..Len(screenTimers) :
        /\ CanFireScreen(i)
        /\ CommitScreen(
               screenTimerCallback(
                   [Scr EXCEPT !.screenTimers = RemoveAt(@, i)],
                   screenTimers[i]),
               IF screenTimers[i] \in HomeTimers THEN "homeTimer" ELSE "timer")

\* the countdown: a period passes
Tick ==
    /\ examPageOpen
    /\ ~submitting
    /\ timeRemaining > 1
    /\ CommitScreen(rerender([Scr EXCEPT !.timeRemaining = @ - 1]), "tick")

\* the countdown: the last period passes and handleAutoSubmit() runs
Expire ==
    /\ examPageOpen
    /\ ~submitting
    /\ timeRemaining = 1
    /\ CommitScreen(
           submitExamAnswers([Scr EXCEPT !.timeRemaining = 0],
                             Task("handleAutoSubmit", "timer", "sink")),
           "handleAutoSubmit")

\* the user leaves the screen with the system back gesture
LeaveScreen ==
    /\ examPageOpen
    /\ CommitScreen(unmount(Scr), "unmount")

NextExam ==
    \/ InitializeSpeech
    \/ ExamVoiceCommand
    \/ ExamSpeechError
    \/ SpeechSettled
    \/ SubmitExamSettled
    \/ ScreenTimer
    \/ Tick
    \/ Expire
    \/ LeaveScreen

SpecExam == Init /\ [][NextExam]_vars

\* final transcripts of a student who answers and moves between the
\* questions; "a" and "b" are options of every question, "d" of none
AnswerCommands == {"a", "b", "d", "next", "previous"}

ExamAnswerCommand ==
    /\ registered = "EXAM"
    /\ isListening
    /\ \E command \in AnswerCommands :
          CommitScreen(handleVoiceCommand(svcStopListening(recognize(Scr)),
                                          command),
                       "handleVoiceCommand")

\* setCurrentQuestionIndex(index) of a touch control: the state changes,
\* the screen renders again and the effect on currentQuestionIndex runs
setCurrentQuestionIndex(d, index) ==
    IF index = d.currentQuestionIndex THEN d
    ELSE questionEffect(rerender([d EXCEPT !.currentQuestionIndex = index]))

\* the Previous button, disabled on the first question
PressPrevious ==
    /\ examPageOpen
    /\ currentQuestionIndex # 0
    /\ CommitScreen(setCurrentQuestionIndex(Scr, currentQuestionIndex - 1),
                    "press")

\* the Next button, shown on every question but the last
PressNext ==
    /\ examPageOpen
    /\ currentQuestionIndex # TotalQuestions - 1
    /\ CommitScreen(setCurrentQuestionIndex(Scr, currentQuestionIndex + 1),
                    "press")

NextAnswers ==
    \/ InitializeSpeech
    \/ ExamAnswerCommand
    \/ SpeechSettled
    \/ ScreenTimer
    \/ PressPrevious
    \/ PressNext

SpecAnswers == Init /\ [][NextAnswers]_vars

(* The steps of the home screen *)

\* HomePage.initializeSpeech(), from the registration of the callbacks to
\* the welcome message
HomeInitializeSpeech ==
    /\ ~homeSpeechInitializedRef
    /\ CommitScreen(
           svcSpeak([Scr EXCEPT !.registered = "HOME",
                                !.homeSpeechInitializedRef = TRUE,
                                !.context = "HOME"],
                    Task("HomePage.initializeSpeech", "welcome", "welcome")),
           "initializeSpeech")

HomeVoiceCommand ==
    /\ registered = "HOME"
    /\ isListening
    /\ \E command \in HomeCommands :
          CommitScreen(homeHandleVoiceCommand(svcStopListening(recognize(Scr)),
                                              command),
                       "handleVoiceCommand")

HomeSpeechError ==
    /\ registered = "HOME"
    /\ isListening
    /\ \/ CommitScreen(homeHandleSpeechError(recognize(Scr), "silence_timeout"),
                       "handleSpeechError")
       \/ CommitScreen(homeHandleSpeechError(svcStopListening(recognize(Scr)),
                                             "error"),
                       "handleSpeechError")

NextHome ==
    \/ HomeInitializeSpeech
    \/ HomeVoiceCommand
    \/ HomeSpeechError
    \/ SpeechSettled
    \/ ScreenTimer

SpecHome == InitHome /\ [][NextHome]_vars

\* both screens, each from its own start
SpecScreens == (Init \/ InitHome) /\ [][NextExam \/ NextHome]_vars

----------------------------------------------------------------------------
(***************************************************************************)
(* The search of the option letter in a final transcript on a               *)
(* multiple-choice question (ExamPage.js, handleVoiceCommand).  A string is  *)
(* the sequence of its characters; the regular expressions are matched as   *)
(* the engine matches them, from each start position, leftmost first.       *)
(***************************************************************************)

\* the words a transcript is made of, and their characters
Words == {"a", "D", "option", "select", "read"}

WordChars(w) ==
    CASE w = "a" -> <<"a">>
      [] w = "D" -> <<"D">>
      [] w = "option" -> <<"o", "p", "t", "i", "o", "n">>
      [] w = "select" -> <<"s", "e", "l", "e", "c", "t">>
      [] w = "choose" -> <<"c", "h", "o", "o", "s", "e">>
      [] w = "pick" -> <<"p", "i", "c", "k">>
      [] w = "read" -> <<"r", "e", "a", "d">>
      [] w = "next" -> <<"n", "e", "x", "t">>
      [] w = "Next" -> <<"N", "e", "x", "t">>
      [] w = "previous" -> <<"p", "r", "e", "v", "i", "o", "u", "s">>
      [] w = "back" -> <<"b", "a", "c", "k">>
      [] w = "repeat" -> <<"r", "e", "p", "e", "a", "t">>
      [] w = "again" -> <<"a", "g", "a", "i", "n">>
      [] w = "submit" -> <<"s", "u", "b", "m", "i", "t">>
      [] w = "finish" -> <<"f", "i", "n", "i", "s", "h">>
      [] w = "exit" -> <<"e", "x", "i", "t">>
      [] w = "quit" -> <<"q", "u", "i", "t">>
      [] w = "leave" -> <<"l", "e", "a", "v", "e">>
      [] w = "please" -> <<"p", "l", "e", "a", "s", "e">>
      [] w = "question" -> <<"q", "u", "e", "s", "t", "i", "o", "n">>
      [] w = "extra" -> <<"e", "x", "t", "r", "a">>

\* the recognizer separates the words of a transcript by one space
RECURSIVE Join(_)
Join(ws) ==
    IF ws = <<>> THEN <<>>
    ELSE IF Len(ws) = 1 THEN WordChars(ws[1])
    ELSE WordChars(ws[1]) \o <<" ">> \o Join(Tail(ws))

\* String.prototype.toLowerCase on the characters of the words
toLowerCase(s) ==
    [i \in 1..Len(s) |->
        CASE s[i] = "A" -> "a" [] s[i] = "B" -> "b"
          [] s[i] = "C" -> "c" [] s[i] = "D" -> "d"
          [] s[i] = "N" -> "n"
          [] OTHER -> s[i]]

\* String.prototype.trim
RECURSIVE trim(_)
trim(s) ==
    IF s # <<>> /\ Head(s) = " " THEN trim(Tail(s))
    ELSE IF s # <<>> /\ s[Len(s)] = " " THEN trim(SubSeq(s, 1, Len(s) - 1))
    ELSE s

\* String.prototype.slice(-n)
sliceLast(s, n) == IF Len(s) <= n THEN s ELSE SubSeq(s, Len(s) - n + 1, Len(s))

\* \w at position i of s
IsWordChar(s, i) == i >= 1 /\ i <= Len(s) /\ s[i] # " "

\* \b before position i of s
Boundary(s, i) == IsWordChar(s, i - 1) # IsWordChar(s, i)

\* the literal w at position p of s
StartsWith(s, p, w) ==
    p + Len(w) - 1 <= Len(s) /\ SubSeq(s, p, p + Len(w) - 1) = w

\* \s* from position p of s: the position after the white space
RECURSIVE SkipSpaces(_, _)
SkipSpaces(s, p) ==
    IF p <= Len(s) /\ s[p] = " " THEN SkipSpaces(s, p + 1) ELSE p

\* (?:option\s+)?([a-d]) at position p of s: the position of the captured
\* letter, 0 if there is no match
OptionLetterAt(s, p) ==
    LET q == SkipSpaces(s, p + 6)
    IN IF StartsWith(s, p, WordChars("option")) /\ q > p + 6
          /\ q <= Len(s) /\ s[q] \in Letters
       THEN q
       ELSE IF p <= Len(s) /\ s[p] \in Letters THEN p
       ELSE 0

\* \s*$ after position q of s
AtEnd(s, q) == SkipSpaces(s, q + 1) > Len(s)

\* /\b(?:select|choose|pick)\s+(?:option\s+)?([a-d])\s*$/ at position p
EndPattern1At(s, p) ==
    LET verbs == {v \in {WordChars("select"), WordChars("choose"),
                         WordChars("pick")} : StartsWith(s, p, v)}
        v == CHOOSE v \in verbs : TRUE
        r == SkipSpaces(s, p + Len(v))
        q == OptionLetterAt(s, r)
    IN IF Boundary(s, p) /\ verbs # {} /\ r > p + Len(v) /\ q # 0
          /\ AtEnd(s, q)
       THEN q ELSE 0

\* /\b(?:option\s+)?([a-d])\s*$/ at position p
EndPattern2At(s, p) ==
    LET q == OptionLetterAt(s, p)
    IN IF Boundary(s, p) /\ q # 0 /\ AtEnd(s, q) THEN q ELSE 0

\* /\b(?:option\s+)?([a-d])\b/ at position p
AnywhereAt(s, p) ==
    LET q == OptionLetterAt(s, p)
    IN IF Boundary(s, p) /\ q # 0 /\ Boundary(s, q + 1) THEN q ELSE 0

\* the leftmost of the start positions of a match, 0 if there is none
leftmost(starts) ==
    IF starts = {} THEN 0 ELSE CHOOSE p \in starts : \A r \in starts : p <= r

\* String.prototype.match without the g flag, for each pattern: the
\* position of the letter captured by the leftmost match, 0 if none
matchEndPattern1(s) ==
    LET p == leftmost({p \in 1..Len(s) : EndPattern1At(s, p) # 0})
    IN IF p = 0 THEN 0 ELSE EndPattern1At(s, p)

matchEndPattern2(s) ==
    LET p == leftmost({p \in 1..Len(s) : EndPattern2At(s, p) # 0})
    IN IF p = 0 THEN 0 ELSE EndPattern2At(s, p)

matchAnywhere(s) ==
    LET p == leftmost({p \in 1..Len(s) : AnywhereAt(s, p) # 0})
    IN IF p = 0 THEN 0 ELSE AnywhereAt(s, p)

\* String.prototype.matchAll: the matches from position p on, each search
\* starting where the match before it ended
RECURSIVE matchAll(_, _)
matchAll(s, p) ==
    IF p > Len(s) THEN <<>>
    ELSE IF AnywhereAt(s, p) # 0
    THEN <<AnywhereAt(s, p)>> \o matchAll(s, AnywhereAt(s, p) + 1)
    ELSE matchAll(s, p + 1)

\* the search taking the first occurrence anywhere in the command
extractLetter_firstOccurrence(command) ==
    LET allMatches == matchAll(command, 1)
    IN IF allMatches # <<>> THEN ToUpperCase(command[allMatches[1]])
       ELSE "null"

\* selectedLetter of a command: the end patterns, then the last 15
\* characters, then the last occurrence
extractLetter(command) ==
    LET end1 == matchEndPattern1(command)
        end2 == matchEndPattern2(command)
        lastPart == sliceLast(command, LastPartLength)
        lastMatch == matchAnywhere(lastPart)
        allMatches == matchAll(command, 1)
    IN IF end1 # 0 THEN ToUpperCase(command[end1])
       ELSE IF end2 # 0 THEN ToUpperCase(command[end2])
       ELSE IF lastMatch # 0 THEN ToUpperCase(lastPart[lastMatch])
       ELSE IF allMatches # <<>>
       THEN ToUpperCase(command[allMatches[Len(allMatches)]])
       ELSE "null"

\* the command handleVoiceCommand works on
command == trim(toLowerCase(Join(transcript)))

\* the recognizer adds a word to the transcript
Hear ==
    /\ Len(transcript) < MaxWords
    /\ selectedLetter = "-"
    /\ \E w \in Words : transcript' = Append(transcript, w)
    /\ UNCHANGED <<isSpeaking, isListening, engineVars, screenVars,
                   selectedLetter, questionType, intent, gateVars,
                   offlineVars>>

\* handleVoiceCommand searches the option letter of the final transcript
SelectLetter ==
    /\ transcript # <<>>
    /\ selectedLetter = "-"
    /\ selectedLetter' = extractLetter(command)
    /\ UNCHANGED <<isSpeaking, isListening, engineVars, screenVars,
                   transcript, questionType, intent, gateVars,
                   offlineVars>>

NextExtract == Hear \/ SelectLetter

SpecExtract == Init /\ [][NextExtract]_vars

(* The branch handleVoiceCommand takes for a command, past its guards *)

\* the words of a transcript the branches are told apart by
IntentWords == {"Next", "previous", "back", "repeat", "read", "again",
                "submit", "finish", "exit", "quit", "leave", "a", "option",
                "question", "please", "extra"}

QuestionTypes == {"multiple-choice", "written"}

\* String.prototype.includes
includes(s, w) == \E p \in 1..Len(s) : StartsWith(s, p, WordChars(w))

\* the branch taken: the option letter on a multiple-choice question, then
\* the chain of includes() tests
intentOf(cmd, type) ==
    IF type = "multiple-choice" /\ extractLetter(cmd) # "null"
    THEN "SelectOption"
    ELSE IF includes(cmd, "next") THEN "Next"
    ELSE IF includes(cmd, "previous") \/ includes(cmd, "back") THEN "Previous"
    ELSE IF includes(cmd, "repeat") \/ includes(cmd, "read")
            \/ includes(cmd, "again")
    THEN "Repeat"
    ELSE IF includes(cmd, "submit") \/ includes(cmd, "finish") THEN "Submit"
    ELSE IF includes(cmd, "exit") \/ includes(cmd, "quit")
            \/ includes(cmd, "leave")
    THEN "Exit"
    ELSE "Unrecognized"

\* the recognizer adds a word to the transcript
HearCommand ==
    /\ Len(transcript) < MaxIntentWords
    /\ intent = "-"
    /\ \E w \in IntentWords : transcript' = Append(transcript, w)
    /\ UNCHANGED <<isSpeaking, isListening, engineVars, screenVars,
                   selectedLetter, questionType, intent, gateVars,
                   offlineVars>>

\* the option branch up to its speech: the answer is saved if the
\* question has an option of that letter
selectOption(d, selected) ==
    LET letter == CHOOSE l \in Letters : ToUpperCase(l) = selected
    IN IF OptionIndex(letter) < OptionCount THEN saveAnswer(d, letter) ELSE d

\* handleVoiceCommand takes its branch for the final transcript; of the
\* branches, the one of the option letter is followed to its speech
Interpret ==
    /\ transcript # <<>>
    /\ intent = "-"
    /\ \E type \in QuestionTypes :
          /\ questionType' = type
          /\ selectedLetter' = IF type = "multiple-choice"
                               THEN extractLetter(command) ELSE "null"
          /\ intent' = intentOf(command, type)
          /\ ScreenUpdate(IF intentOf(command, type) = "SelectOption"
                          THEN selectOption(Scr, extractLetter(command))
                          ELSE Scr,
                          "interpret")
    /\ UNCHANGED <<engineVars, transcript, gateVars, offlineVars>>

NextIntent == HearCommand \/ Interpret

SpecIntent == Init /\ [][NextIntent]_vars

----------------------------------------------------------------------------
(***************************************************************************)
(* The screen context service (src/src/services/evaluationMetrics.js,       *)
(* class ScreenContextService): the current context and its subscribers.    *)
(***************************************************************************)

\* the values setContext accepts; "null" is null
Contexts == {"HOME", "EXAM", "null"}

\* the values a caller passes to setContext; "RESULTS" names a screen the
\* service does not know
ContextArgs == Contexts \cup {"RESULTS"}

\* the functions a caller subscribes: one that only reads its arguments,
\* one that calls its unsubscribe function when notified, one that throws
Listeners == {"plain", "once", "throwing"}

Gate ==
    [currentScreenContext |-> context, listeners |-> listeners,
     notified |-> <<>>]

\* this.listeners.indexOf(listener) + 1, 0 if absent
RECURSIVE indexOf(_, _)
indexOf(ls, l) ==
    IF ls = <<>> THEN 0
    ELSE IF Head(ls) = l THEN 1
    ELSE IF indexOf(Tail(ls), l) = 0 THEN 0
    ELSE indexOf(Tail(ls), l) + 1

\* the function subscribe() returned: the first entry of the listener is
\* spliced out
unsubscribe(g, l) ==
    IF indexOf(g.listeners, l) > 0
    THEN [g EXCEPT !.listeners = RemoveAt(@, indexOf(g.listeners, l))]
    ELSE g

\* this.listeners.forEach from index k on: the listener at each index of
\* the array as it is when the index is reached is called with (context,
\* previousContext); what a listener throws is caught
RECURSIVE forEach(_, _, _, _)
forEach(g, k, ctx, previousContext) ==
    IF k > Len(g.listeners) THEN g
    ELSE LET l == g.listeners[k]
             called == [g EXCEPT !.notified =
                           Append(@, [listener |-> l, context |-> ctx,
                                      previousContext |-> previousContext])]
         IN forEach(IF l = "once" THEN unsubscribe(called, l) ELSE called,
                    k + 1, ctx, previousContext)

\* setContext(context)
setContext(g, ctx) ==
    IF ctx \notin Contexts THEN g
    ELSE forEach([g EXCEPT !.currentScreenContext = ctx], 1, ctx,
                 g.currentScreenContext)

getContext(g) == g.currentScreenContext

\* isCommandValid(command, context)
isCommandValid(g, cmd, ctx) ==
    IF g.currentScreenContext # ctx THEN FALSE ELSE TRUE

subscribe(g, l) == [g EXCEPT !.listeners = Append(@, l)]

CommitGate(g, arg) ==
    /\ context' = g.currentScreenContext
    /\ listeners' = g.listeners
    /\ notified' = g.notified
    /\ lastSet' = arg
    /\ UNCHANGED <<isSpeaking, isListening, engineVars, interpreterVars>>
    /\ UNCHANGED <<registered, homeSpeechInitializedRef,
                   homeIsProcessingCommandRef, examPageOpen, mounted,
                   speechInitializedRef, isProcessingCommandRef,
                   isWaitingForConfirmationRef, hasReadFirstQuestionRef,
                   currentQuestionIndexRef, currentQuestionIndex,
                   answersRef, submitting,
                   timeRemaining, tasks, screenTimers, recognized,
                   submitCount, sinkBy, out, lastStep>>
    /\ UNCHANGED offlineVars

SetContext == \E ctx \in ContextArgs : CommitGate(setContext(Gate, ctx), ctx)

\* reset() is setContext(null)
Reset == CommitGate(setContext(Gate, "null"), "null")

Subscribe ==
    /\ Len(listeners) < MaxListeners
    /\ \E l \in Listeners : CommitGate(subscribe(Gate, l), "-")

\* a caller calls the function subscribe() returned to it
Unsubscribe ==
    \E l \in Listeners :
        /\ indexOf(listeners, l) > 0
        /\ CommitGate(unsubscribe(Gate, l), "-")

NextGate == SetContext \/ Reset \/ Subscribe \/ Unsubscribe

SpecGate == InitHome /\ [][NextGate]_vars

----------------------------------------------------------------------------
(***************************************************************************)
(* The queue of pending submissions (src/src/services/offlineService.js):   *)
(* queueSubmission and syncPendingSubmissions read the stored list, work on *)
(* their copy across their awaits, and write a list back.  A submission is  *)
(* the exam it is for and its answers; the student is the same throughout.  *)
(***************************************************************************)

Exams == 1..MaxExams

Submission(examId, answers) == [examId |-> examId, answers |-> answers]

\* pending.some(p => p.examId === examId && p.studentId === studentId)
alreadyQueued(pending, examId) ==
    \E i \in 1..Len(pending) : pending[i].examId = examId

\* the list queueSubmission writes: the queued submission of the exam is
\* replaced, or the new one is pushed
queueSubmission(pending, examId, answers) ==
    IF alreadyQueued(pending, examId)
    THEN [i \in 1..Len(pending) |->
             IF pending[i].examId = examId
             THEN Submission(examId, answers) ELSE pending[i]]
    ELSE Append(pending, Submission(examId, answers))

\* queueSubmission(), to the list getPendingSubmissions() returns
QueueSubmission ==
    /\ queueCall.pc = "idle"
    /\ queueSerial < MaxQueueCalls
    /\ \E examId \in Exams :
          queueCall' = [pc |-> "write", examId |-> examId,
                        answers |-> queueSerial + 1,
                        pending |-> pendingSubmissions]
    /\ queueSerial' = queueSerial + 1
    /\ UNCHANGED <<pendingSubmissions, syncCall, submitted, latest>>
    /\ UNCHANGED <<isSpeaking, isListening, engineVars, screenVars,
                   interpreterVars, gateVars>>

\* queueSubmission() goes on: AsyncStorage.setItem, return true
QueueWrite ==
    /\ queueCall.pc = "write"
    /\ pendingSubmissions' = queueSubmission(queueCall.pending,
                                             queueCall.examId,
                                             queueCall.answers)
    /\ latest' = [latest EXCEPT ![queueCall.examId] = queueCall.answers]
    /\ queueCall' = [pc |-> "idle", examId |-> 0, answers |-> 0,
                     pending |-> <<>>]
    /\ UNCHANGED <<syncCall, queueSerial, submitted>>
    /\ UNCHANGED <<isSpeaking, isListening, engineVars, screenVars,
                   interpreterVars, gateVars>>

\* syncPendingSubmissions(submitFunction), to its first submitFunction
\* call; it returns at once if nothing is pending
SyncStart ==
    /\ syncCall.pc = "idle"
    /\ pendingSubmissions # <<>>
    /\ syncCall' = [pc |-> "loop", pending |-> pendingSubmissions, k |-> 1,
                    failed |-> <<>>, synced |-> 0]
    /\ UNCHANGED <<pendingSubmissions, queueCall, queueSerial, submitted,
                   latest>>
    /\ UNCHANGED <<isSpeaking, isListening, engineVars, screenVars,
                   interpreterVars, gateVars>>

\* submitFunction settles for the submission the loop is at: it is counted
\* as synced, or pushed to `failed`
SyncSubmit ==
    /\ syncCall.pc = "loop"
    /\ \E ok \in BOOLEAN :
          LET submission == syncCall.pending[syncCall.k]
              last == syncCall.k = Len(syncCall.pending)
          IN /\ submitted' = IF ok THEN submitted \cup {submission}
                             ELSE submitted
             /\ syncCall' = [syncCall EXCEPT
                    !.pc = IF last THEN "write" ELSE "loop",
                    !.k = @ + 1,
                    !.synced = IF ok THEN @ + 1 ELSE @,
                    !.failed = IF ok THEN @ ELSE Append(@, submission)]
    /\ UNCHANGED <<pendingSubmissions, queueCall, queueSerial, latest>>
    /\ UNCHANGED <<isSpeaking, isListening, engineVars, screenVars,
                   interpreterVars, gateVars>>

\* after the loop: only the failed submissions are saved back
SyncWrite ==
    /\ syncCall.pc = "write"
    /\ pendingSubmissions' = syncCall.failed
    /\ syncCall' = [pc |-> "idle", pending |-> <<>>, k |-> 1,
                    failed |-> <<>>, synced |-> 0]
    /\ UNCHANGED <<queueCall, queueSerial, submitted, latest>>
    /\ UNCHANGED <<isSpeaking, isListening, engineVars, screenVars,
                   interpreterVars, gateVars>>

NextOffline ==
    \/ QueueSubmission
    \/ QueueWrite
    \/ SyncStart
    \/ SyncSubmit
    \/ SyncWrite

SpecOffline == InitHome /\ [][NextOffline]_vars

----------------------------------------------------------------------------
TypeOK ==
    /\ isSpeaking \in BOOLEAN
    /\ isListening \in BOOLEAN
    /\ silenceTimeout \in {"null", "armed", "fired"}
    /\ nextId \in 1..(MaxQueueSpeak + 1)

----------------------------------------------------------------------------
(* Properties *)

Emitted(e) == \E i \in 1..Len(emitted) : emitted[i].ev = e

Queued(id) == \E k \in 1..Len(speechQueue) : speechQueue[k] = id

\* C1: the controller is never both speaking and listening
MutualExclusion == ~(isSpeaking /\ isListening)

\* C2: while a speak() or startListening() call is suspended in its 500 ms
\* or 800 ms transition delay, no other speak() or startListening() call
\* changes the turn state
InDelay == Pending("speakDelay") + Pending("listenDelay") > 0

NoConcurrentTransition ==
    [][(InDelay /\ (Speak \/ StartListening))
          => UNCHANGED <<isSpeaking, isListening>>]_vars

\* C3: the speech queue is served in arrival order: when a text is handed
\* to the TTS engine, no request that arrived before it is still queued
QueueOrder ==
    \A i \in 1..Len(emitted) :
        emitted[i].ev = "Speech.speak"
            => \A k \in 1..Len(speechQueue) : speechQueue[k] > emitted[i].id

\* C4: the completion signal of a speak() call never resolves while the
\* call's request is still waiting in the speech queue
QueuedSignalAfterSpoken ==
    \A i \in 1..Len(emitted) :
        emitted[i].ev = "resolved" => ~Queued(emitted[i].id)

\* C5: when an utterance is handed to the TTS engine, listening has been
\* stopped (isListening false, recognition engine not running); when the
\* recognition engine is started, speaking has been stopped (isSpeaking
\* false, every utterance the TTS engine holds stopped)
HandOverOrder ==
    /\ Emitted("Speech.speak") => ~isListening /\ ~sttActive
    /\ Emitted("start")
          => ~isSpeaking /\ \A k \in 1..Len(tts) : tts[k].stopped

\* C6: a controller that is Listening, with an error callback registered,
\* eventually leaves Listening (final transcript, stop, error) or raises
\* silence_timeout
SilenceEventuallyRaised ==
    (isListening /\ onRecognitionErrorCallback)
        ~> (~isListening \/ silenceCount > 0)

\* C7: when the silence timer raises silence_timeout in a window in which
\* no recognition event arrived, it is the only one of that window and the
\* controller is no longer Listening
SilenceTimeoutReturnsIdle ==
    (Emitted("silence_timeout") /\ ~heard)
        => (silenceCount = 1 /\ ~isListening)

\* C8 as stated: after stopListening() or abortListening() the silence
\* timer is cleared and the turn state is Idle whatever it was before
StopAlwaysIdle ==
    lastOp \in {"stopListening", "abortListening"}
        => /\ silenceTimeout = "null"
           /\ Pending("silence") = 0
           /\ ~isListening
           /\ ~isSpeaking

\* C8 amended: after stopListening() or abortListening() the silence timer
\* is cleared and isListening is false; isSpeaking is what it was before,
\* so the turn state is Idle unless the call was made while Speaking
StopEndsListening ==
    lastOp \in {"stopListening", "abortListening"}
        => /\ silenceTimeout = "null"
           /\ Pending("silence") = 0
           /\ ~isListening
           /\ isSpeaking <=> (before \in {"Speaking", "Both"})

\* C8 witness: stopListening() has returned after a call made while Speaking
StopWhileSpeaking ==
    /\ lastOp = "stopListening"
    /\ before = "Speaking"
    /\ isSpeaking

\* C9 as stated: stopListening() called when Idle changes no controller state
ctrl == <<isSpeaking, isListening, speechQueue, currentRecognition,
          currentRecognitionSubscriptions, silenceTimeout,
          onSpeechEndCallback, onRecognitionResultCallback,
          onRecognitionErrorCallback, timers>>

IdleStopChangesNothing ==
    [][(lastOp' = "stopListening" /\ before' = "Idle")
          => UNCHANGED ctrl]_vars

\* C9 amended: stopListening() called when Idle raises no error and leaves
\* the flags, the speech queue, the registered callbacks and every timer
\* but the silence timer unchanged (it may clear a leftover silence timer
\* and release a finished recognition); called again at once it changes
\* nothing at all
NotSilence(t) == t.kind # "silence"

IdleStopIdempotent ==
    [][(lastOp' = "stopListening" /\ before' = "Idle")
          => /\ UNCHANGED <<isSpeaking, isListening, speechQueue, tts,
                            onSpeechEndCallback, onRecognitionResultCallback,
                            onRecognitionErrorCallback>>
             /\ SelectSeq(timers', NotSilence) = SelectSeq(timers, NotSilence)
             /\ emitted' = <<>>
             /\ fault' = "none"
             /\ lastOp = "stopListening" => UNCHANGED <<ctrl, tts, sttActive>>]_vars

\* C9 witness: stopListening() has returned after a call made when Idle
\* with requests still waiting in the speech queue
StopWhenIdle ==
    /\ lastOp = "stopListening"
    /\ before = "Idle"
    /\ Len(speechQueue) > 0

\* C10: after an engine failure (Speech.speak throwing, the TTS error
\* callback, an STT error event, start() throwing) both flags are false
\* and the failure has been reported to the caller
Surfaced ==
    /\ fault \in {"tts_throw", "tts_error"} => Emitted("rejected")
    /\ (fault = "stt_error" /\ onRecognitionErrorCallback)
          => Emitted("engine_error")
    /\ (fault = "start_throw" /\ onRecognitionErrorCallback)
          => Emitted("unknown")

ErrorReleasesLock ==
    fault # "none" => (~isSpeaking /\ ~isListening /\ Surfaced)

\* C11: no public method of the controller rejects to its caller: no step
\* settles the promise returned by a speak() call as rejected
NeverRejects == ~Emitted("rejected")

\* what a handler of a screen can change or cause
screenEffects == <<context, registered, isSpeaking, isProcessingCommandRef,
                   homeIsProcessingCommandRef, isWaitingForConfirmationRef,
                   currentQuestionIndexRef, currentQuestionIndex,
                   answersRef, submitting, tasks,
                   screenTimers, submitCount, examPageOpen>>

\* the controller holds the callbacks of a screen whose context is not the
\* current one
OutsideContext ==
    \/ registered = "EXAM" /\ context # "EXAM"
    \/ registered = "HOME" /\ context # "HOME"

\* C12: a final transcript handed to the handler of a screen while the
\* screen context is not that screen's is dropped: the step speaks nothing,
\* opens no window, schedules nothing, and changes neither the answers, the
\* current question, the confirmation, the submission nor the context
ContextGating ==
    [][(lastStep' = "handleVoiceCommand" /\ OutsideContext)
          => (UNCHANGED screenEffects /\ out' = {})]_vars

\* C12 witness: a handler has just returned from a transcript that reached
\* it outside its context
TranscriptOutsideContext == lastStep = "handleVoiceCommand" /\ OutsideContext

\* C13: a timer callback of a screen that runs when the screen context is
\* no longer that screen's opens no listening window and speaks nothing
StaleTimerNoOp ==
    /\ (lastStep = "homeTimer" /\ context # "HOME") => out = {}
    /\ (lastStep = "timer" /\ context # "EXAM") => out = {}

\* C14: while the submit confirmation is awaited, a final transcript moves
\* to no other question, records no answer and leaves the context and the
\* confirmation as they are (only the settled speech of "yes" or "no" ends
\* the confirmation)
ConfirmationShortCircuit ==
    [][(lastStep' = "handleVoiceCommand" /\ isWaitingForConfirmationRef)
          => UNCHANGED <<currentQuestionIndexRef, answersRef, context,
                         isWaitingForConfirmationRef>>]_vars

\* handleVoiceCommand has accepted "yes" and awaits "Submitting exam."
YesAccepted == Task("handleVoiceCommand", "yes", "confirm") \in tasks

\* C15: an accepted "yes" calls submitExam exactly once: when the handler
\* that accepted it goes on it calls submitExam, and every call made for a
\* "yes" is the one call of such a handler
YesSubmitsOnce ==
    [][/\ (YesAccepted /\ ~YesAccepted')
             => (submitCount' = submitCount + 1 /\ sinkBy' = "yes")
       /\ (submitCount' # submitCount /\ sinkBy' = "yes")
             => (YesAccepted /\ ~YesAccepted'
                    /\ submitCount' = submitCount + 1)]_vars

\* C16: when the countdown reaches zero submitExam is called at once and
\* an open confirmation is discarded, and submitExam is not called again
\* afterwards
AutoSubmitPreempts ==
    [][/\ (timeRemaining = 1 /\ timeRemaining' = 0)
             => (submitCount' = submitCount + 1
                    /\ ~isWaitingForConfirmationRef')
       /\ timeRemaining = 0 => submitCount' = submitCount]_vars

\* C17: the guard of handleVoiceCommand is set only while a call of the
\* handler is in progress
GuardReleased ==
    (isProcessingCommandRef /\ context = "EXAM" /\ registered = "EXAM")
        => \E t \in tasks : t.fn = "handleVoiceCommand"

\* handleSpeechError has just run in an exam session
ErrorHandled ==
    lastStep = "handleSpeechError" /\ registered = "EXAM" /\ context = "EXAM"

\* a listening window is open, or a timer or a speech is pending that can
\* re-open one
CanReopen == isListening \/ tasks # {} \/ screenTimers # <<>>

\* C18: when handleSpeechError has run in an exam session, a message is
\* being spoken, and a listening window is open or can be re-opened
ErrorRecovers == ErrorHandled => ("speak" \in out /\ CanReopen)

\* handleVoiceCommand has met a submit command and awaits the prompt
SubmitHeard == Task("handleVoiceCommand", "submit", "command") \in tasks

Standalone(s, i) ==
    /\ s[i] \in Letters
    /\ i = 1 \/ s[i - 1] = " "
    /\ i = Len(s) \/ s[i + 1] = " "

StandaloneIn(s) == {i \in 1..Len(s) : Standalone(s, i)}

\* C20: the option letter is (a) the letter the command ends with, if that
\* letter is a word of its own (alone, after "option", after a select
\* phrase); else (b) a letter standing alone in the last 15 characters;
\* else (c) the last letter standing alone anywhere; else none.  So
\* "option a select option D" gives D and "D" gives D
ExtractionOrder ==
    selectedLetter # "-" =>
        LET tail == sliceLast(command, LastPartLength)
            all == StandaloneIn(command)
        IN /\ Standalone(command, Len(command))
                 => selectedLetter = ToUpperCase(command[Len(command)])
           /\ (~Standalone(command, Len(command)) /\ StandaloneIn(tail) # {})
                 => \E i \in StandaloneIn(tail) :
                        selectedLetter = ToUpperCase(tail[i])
           /\ (StandaloneIn(tail) = {} /\ all # {})
                 => \E i \in all :
                        /\ \A j \in all : j <= i
                        /\ selectedLetter = ToUpperCase(command[i])
           /\ (StandaloneIn(tail) = {} /\ all = {}) => selectedLetter = "null"
           /\ transcript = <<"option", "a", "select", "option", "D">>
                 => selectedLetter = "D"
           /\ transcript = <<"D">> => selectedLetter = "D"

\* C20 witness: the letter of "option a select option D" has been searched
EndAnchoredChosen ==
    /\ transcript = <<"option", "a", "select", "option", "D">>
    /\ selectedLetter = "D"

\* C21: for each listening window opened by startListening() the result
\* callback is invoked at most once, whatever result events the engine emits
ResultOncePerWindow == resultCount <= 1

DrainBeforeIdle ==
    [][/\ (Pending("postSpeech")' > Pending("postSpeech") /\ speechQueue' # <<>>)
              => (isSpeaking' \/ isListening')
       /\ (Pending("postSpeech")' < Pending("postSpeech") /\ Emitted("speechEnd")')
              => (speechQueue = <<>> /\ speechQueue' = <<>>)]_vars

\* a request the engine holds and has not been told to stop
Speaking(u) == ~u.stopped

\* C25: a queued request is on its way to the engine: an utterance that can
\* still complete is being spoken or about to be, or the continuation of a
\* completion is pending
QueuedRequestServed ==
    speechQueue # <<>> =>
        \/ SelectSeq(tts, Speaking) # <<>>
        \/ Pending("postSpeech") > 0
        \/ Pending("speakDelay") > 0

\* C23: setContext(ctx) makes ctx the current context and calls every
\* subscriber with (ctx, the context before); getContext() then returns
\* ctx; isCommandValid(command, c) is true exactly for c = getContext()
ContextContract ==
    [][lastSet' # "-" =>
          /\ getContext(Gate') = lastSet'
          /\ notified' = [i \in 1..Len(listeners) |->
                             [listener |-> listeners[i], context |-> lastSet',
                              previousContext |-> context]]
          /\ \A c \in ContextArgs :
                 isCommandValid(Gate', "next", c) <=> (c = getContext(Gate'))]_vars

\* the command contains one of the keywords
Contains(ws) == \E w \in ws : includes(command, w)

\* C26: on a multiple-choice question a command with an option letter
\* standing alone selects that option whatever keywords it contains;
\* otherwise the first of next, previous/back, repeat/read/again,
\* submit/finish, exit/quit/leave the command contains decides, and a
\* command with none of them is unrecognized
GrammarPriority ==
    intent # "-" =>
        intent =
            IF questionType = "multiple-choice" /\ StandaloneIn(command) # {}
            THEN "SelectOption"
            ELSE IF Contains({"next"}) THEN "Next"
            ELSE IF Contains({"previous", "back"}) THEN "Previous"
            ELSE IF Contains({"repeat", "read", "again"}) THEN "Repeat"
            ELSE IF Contains({"submit", "finish"}) THEN "Submit"
            ELSE IF Contains({"exit", "quit", "leave"}) THEN "Exit"
            ELSE "Unrecognized"

\* the last position of s that holds an option letter standing alone
LastStandalone(s) ==
    CHOOSE i \in StandaloneIn(s) : \A j \in StandaloneIn(s) : j <= i

\* C27: when several option letters stand alone in the command, the letter
\* selected is the one that occurs last
LastLetterWins ==
    (selectedLetter # "-" /\ Cardinality(StandaloneIn(command)) >= 2)
        => selectedLetter = ToUpperCase(command[LastStandalone(command)])

\* the command matches nothing of the grammar: it contains no keyword and,
\* on a multiple-choice question, no option letter standing alone
NoGrammarMatch(type) ==
    /\ ~Contains({"next", "previous", "back", "repeat", "read", "again",
                  "submit", "finish", "exit", "quit", "leave"})
    /\ type = "multiple-choice" => StandaloneIn(command) = {}

\* C28: a command that matches nothing of the grammar is unrecognized, and
\* the handler leaves the question index, the recorded answers, the
\* confirmation state and the screen context as they are
UnrecognizedChangesNothing ==
    [][(intent = "-" /\ intent' # "-" /\ NoGrammarMatch(questionType'))
          => /\ intent' = "Unrecognized"
             /\ UNCHANGED <<currentQuestionIndexRef, answersRef,
                            isWaitingForConfirmationRef, context>>]_vars

\* the invocations of a screen's command handler suspended past its guard
PastGuard(fn) == {t \in tasks : t.fn = fn}

\* C29: a transcript handed to a screen's handler while the guard of that
\* screen is set is ignored (nothing is spoken, scheduled or changed), and
\* at most one invocation of each handler is past its guard at any time
NoReentry ==
    [][/\ (lastStep' = "handleVoiceCommand" /\ registered = "EXAM"
             /\ isProcessingCommandRef)
              => (UNCHANGED screenEffects /\ out' = {})
       /\ (lastStep' = "handleVoiceCommand" /\ registered = "HOME"
             /\ homeIsProcessingCommandRef)
              => (UNCHANGED screenEffects /\ out' = {})
       /\ Cardinality(PastGuard("handleVoiceCommand")') <= 1
       /\ Cardinality(PastGuard("HomePage.handleVoiceCommand")') <= 1]_vars

\* C29 witness: a transcript has just reached the exam screen's handler in
\* its own context while an earlier command is still being processed
TranscriptWhileProcessing ==
    /\ lastStep = "handleVoiceCommand"
    /\ registered = "EXAM"
    /\ context = "EXAM"
    /\ isProcessingCommandRef
    /\ out = {}
    /\ PastGuard("handleVoiceCommand") # {}

\* handleVoiceCommand has accepted "no" and awaits "Returning to current
\* question."
NoAccepted == Task("handleVoiceCommand", "no", "confirm") \in tasks

\* the reading of the question that an accepted "no" schedules
ReadingAfterNo == Task("readCurrentQuestion", "no", "read") \in tasks

Scheduled(kind) == \E i \in 1..Len(screenTimers) : screenTimers[i] = kind

\* C30: when the handler that accepted "no" goes on, it does not call
\* submitExam, closes the confirmation, releases the guard and schedules the
\* reading of the current question; when that reading ends, the timer that
\* re-opens listening is scheduled
NoReturnsToCommand ==
    [][/\ (NoAccepted /\ ~NoAccepted')
             => /\ submitCount' = submitCount
                /\ ~isWaitingForConfirmationRef'
                /\ ~isProcessingCommandRef'
                /\ Scheduled("noRead")'
       /\ (ReadingAfterNo /\ ~ReadingAfterNo') => Scheduled("noListen")']_vars

\* the async functions of the home screen
HomeFunctions == {"HomePage.handleVoiceCommand", "HomePage.handleSpeechError",
                  "HomePage.initializeSpeech"}

\* the step opens a listening window, or starts a speech
OpensOrSpeaks ==
    \/ isListening' /\ ~isListening
    \/ \E t \in tasks' \ tasks : t.pc # "sink"

\* the step is a timer callback of the screen, or resumes one of its
\* functions
StepOf(timer, functions) ==
    \/ lastStep' = timer
    \/ \E t \in tasks \ tasks' : t.fn \in functions

\* C31 (second half): once the action of a command has changed the screen
\* context (an exam started from the home screen), the session of the
\* screen that was left opens no listening window and speaks nothing
TerminatedHomeSilent ==
    [][(context = "EXAM" /\ StepOf("homeTimer", HomeFunctions))
          => ~OpensOrSpeaks]_vars

\* the exam session has started, has not yet read its first question, and
\* has neither been left nor begun to submit
Starting ==
    /\ examPageOpen
    /\ speechInitializedRef
    /\ ~hasReadFirstQuestionRef
    /\ context = "EXAM"
    /\ ~submitting
    /\ timeRemaining > 0

\* C32: an exam session that has started goes on to read the first question
\* and to open a listening window: until the first question has been read,
\* the welcome message or the question is being spoken or a timer of the
\* start-up is pending, and no listening window is open
StartupProceeds ==
    Starting => (~isListening /\ (tasks # {} \/ screenTimers # <<>>))

\* the countdown invokes handleAutoSubmit, which calls submitExam
TimerSubmits == submitCount' = submitCount + 1 /\ sinkBy' = "timer"

\* C33: once a submission has started or the exam screen has been left, the
\* countdown never calls submitExam
CountdownCancelled ==
    [][(submitCount > 0 \/ ~examPageOpen) => ~TimerSubmits]_vars

\* the step runs handleVoiceCommand past its guards to the speech that
\* answers the command
Answered(cmd) == Task("handleVoiceCommand", cmd, "command") \in tasks' \ tasks

\* C34: the index of the current question, and that of the question shown,
\* stay within 0 .. totalQuestions-1 and only a command moves the first, by
\* one question; a next command that is
\* answered by a speech met the last question and a previous command that is
\* answered by a speech met the first, and both leave the index as it is
IndexInRange ==
    [][/\ currentQuestionIndexRef' \in Questions
       /\ currentQuestionIndex' \in Questions
       /\ currentQuestionIndexRef' # currentQuestionIndexRef
             => /\ lastStep' = "handleVoiceCommand"
                /\ \/ currentQuestionIndexRef' = currentQuestionIndexRef + 1
                   \/ currentQuestionIndexRef' = currentQuestionIndexRef - 1
       /\ Answered("next")
             => /\ currentQuestionIndexRef = TotalQuestions - 1
                /\ UNCHANGED currentQuestionIndexRef
       /\ Answered("previous")
             => /\ currentQuestionIndexRef = 0
                /\ UNCHANGED currentQuestionIndexRef]_vars

\* C34 witness: a next command has met the last question, after an earlier
\* one has moved to it
NextOnLastQuestion ==
    /\ Task("handleVoiceCommand", "next", "command") \in tasks
    /\ currentQuestionIndexRef = TotalQuestions - 1
    /\ lastStep = "handleVoiceCommand"

\* the recorded answers to question q
AnswersOf(q) ==
    {answersRef[i].answer :
        i \in {j \in 1..Len(answersRef) : answersRef[j].questionId = q}}

\* the letters of the options every question has
ValidLetters == {l \in Letters : OptionIndex(l) < OptionCount}

\* C35: no question has two recorded answers, and the step that selects an
\* option of the current question makes that option the answer to the
\* current question and leaves the answers to the other questions as they
\* are
OneAnswerPerQuestion ==
    [][/\ \A q \in Questions : Cardinality(AnswersOf(q)') <= 1
       /\ \A l \in ValidLetters :
             Answered(l)
                => /\ AnswersOf(currentQuestionIndexRef)'
                        = {[question |-> currentQuestionIndexRef,
                            letter |-> ToUpperCase(l)]}
                   /\ \A q \in Questions \ {currentQuestionIndexRef} :
                         AnswersOf(q)' = AnswersOf(q)]_vars

\* the letters of no option of a question
InvalidLetters == Letters \ ValidLetters

\* the step resumes the handler of cmd after its answer, or after the
\* apology of its catch block
Resumed(cmd, pc) == Task("handleVoiceCommand", cmd, pc) \in tasks \ tasks'

\* C36: the step that meets a letter of no option records nothing, moves to
\* no question, opens no confirmation and starts one speech, the prompt;
\* when the prompt has been spoken the handler releases its guard and
\* schedules the re-opening of listening, still with nothing recorded (if
\* the speech of the prompt is rejected, the apology of the catch block is
\* spoken first)
InvalidOptionRecordsNothing ==
    [][\A l \in InvalidLetters :
          /\ Answered(l)
                => /\ UNCHANGED <<answersRef, currentQuestionIndexRef,
                                  currentQuestionIndex,
                                  isWaitingForConfirmationRef, context,
                                  screenTimers>>
                   /\ out' = {"speak"}
                   /\ Cardinality(tasks' \ tasks) = 1
          /\ Resumed(l, "command")
                => /\ UNCHANGED answersRef
                   /\ \/ /\ Scheduled("optListen")'
                         /\ Scheduled("relisten")'
                         /\ ~isProcessingCommandRef'
                         /\ tasks' \subseteq tasks
                      \/ Task("handleVoiceCommand", l, "catch") \in tasks'
          /\ Resumed(l, "catch")
                => /\ UNCHANGED answersRef
                   /\ Scheduled("relisten")'
                   /\ ~isProcessingCommandRef'
                   /\ tasks' \subseteq tasks]_vars

\* C36 witness: a letter of no option has just been met while an earlier
\* answer is recorded
InvalidOptionAfterAnswer ==
    /\ lastStep = "handleVoiceCommand"
    /\ \E l \in InvalidLetters :
          Task("handleVoiceCommand", l, "command") \in tasks
    /\ answersRef # <<>>
    /\ out = {"speak"}

\* C37: when stopSpeaking() has returned, isSpeaking is false and the speech
\* queue is empty, in whatever state it was called
StopSpeakingSilences ==
    lastOp = "stopSpeaking" => (~isSpeaking /\ speechQueue = <<>>)

\* C38: when cleanup() has returned both flags are false, and the step that
\* follows invokes no callback registered before, hands no utterance to the
\* TTS engine unless it is a new speak() call, and starts no recognition
\* from a startListening() call made before
CleanupQuiets ==
    [][lastOp = "cleanup"
          => /\ ~isSpeaking /\ ~isListening
             /\ Emitted("Speech.speak")' => nextId' # nextId
             /\ ~Emitted("speechEnd")'
             /\ ~Emitted("result")'
             /\ (sttActive' /\ ~sttActive)
                   => Pending("listenDelay")' >= Pending("listenDelay")]_vars

\* the submission is in the stored list
Stored(submission) ==
    \E i \in 1..Len(pendingSubmissions) : pendingSubmissions[i] = submission

\* C39: the submission last queued for an exam stays in the stored list
\* until submitFunction has accepted it
NoPendingLost ==
    \A examId \in Exams :
        LET submission == Submission(examId, latest[examId])
        IN (latest[examId] # 0 /\ submission \notin submitted)
               => Stored(submission)

====
